---- MODULE Spec2Model ----
(***************************************************************************)
(* Model of the text-structure parser and Akoma Ntoso serializer of        *)
(* Akoma-Ntoso-XML-Converter.py (class AkomaNtosoConverter).               *)
(*                                                                         *)
(* A text is a sequence of one-character strings.  parse_text is modelled  *)
(* one loop iteration per step; build_xml is one step that turns the       *)
(* parsed structure into an element tree.                                  *)
(***************************************************************************)
EXTENDS Integers, Sequences, FiniteSets, TLC

(***************************************************************************)
(* Bounds of the model.                                                    *)
(***************************************************************************)
\* largest number of physical lines in an input text
MaxLines == 4
MaxOrderLines == 5

\* largest number of physical lines in a text converted with a varied title
MaxVariedLines == 3

\* largest number of fragments a line handed to the classifier is made of
MaxFragments == 3

\* largest number of physical lines in the text of one of several calls
MaxCallLines == 2

\* how many times build_xml is called on the structure of one call
MaxBuilds == 2

\* largest number of PDF links on the listing page
MaxLinks == 2

\* largest integer handed to scrape as limit
MaxLimit == 2

\* largest number of PDFs one scraper of main hands back
MaxPdfs == 2

\* largest number of PDFs the scrapers of one run of main hand back together
MaxDownloads == 2

\* largest number of PDFs the pipeline finds in the input folder
MaxPipeFiles == 2

\* largest number of characters a write that raises has left in the file
MaxWritten == 2

\* config/settings.py
MAX_RETRIES == 3

RETRY_DELAY == 2

(***************************************************************************)
(* Characters and the string helpers of Python used by the converter.      *)
(***************************************************************************)
\* A character is a string of one character.  A control character other
\* than \t, \n, \r and \f, a surrogate, a noncharacter and a character the
\* lexer refuses in a string (the grave accent, and a code point above
\* U+00FF whose low byte is below 0x80) is written by its code point, as in
\* "<U+000B>".
\*
\* characters str.strip() removes and the regex class \s of a str pattern
\* matches: the white space of Unicode (str.isspace)
Whitespace ==
    {" ", "\t", "\n", "\r", "\f", "<U+000B>", "<U+001C>", "<U+001D>",
     "<U+001E>", "<U+001F>", "<U+0085>", " ", " ", "<U+2000>", "<U+2001>",
     "<U+2002>", "<U+2003>", "<U+2004>", "<U+2005>", "<U+2006>",
     "<U+2007>", "<U+2008>", "<U+2009>", "<U+200A>", "<U+2028>",
     "<U+2029>", "<U+202F>", "<U+205F>", "<U+3000>"}

\* the regex class \d of a str pattern: every Unicode decimal digit, for
\* which the digit U+06F3 stands next to 0-9
Digits == {"0", "1", "2", "3", "4", "5", "6", "7", "8", "9", "۳"}

\* the regex class [a-z]
LowerLetters == {"a", "b", "c", "d", "e", "f", "g", "h", "i", "j", "k", "l", "m",
                 "n", "o", "p", "q", "r", "s", "t", "u", "v", "w", "x", "y", "z"}

\* the regex class [A-Za-z]
Letters == LowerLetters \cup
           {"A", "B", "C", "D", "E", "F", "G", "H", "I", "J", "K", "L", "M",
            "N", "O", "P", "Q", "R", "S", "T", "U", "V", "W", "X", "Y", "Z"}

\* Casing.  The tables below are those of Python for the characters up to
\* U+00FF, for the characters their mappings lead to, and, for the rest of
\* Unicode, for these: U+01C4, U+01C5 and U+01C6 (a letter with a title case
\* of its own), U+0130 (whose lower case is two characters), U+0149 and
\* U+FB01 (whose title case is two characters), U+03A3 (whose lower case
\* depends on its place in the word) and U+0307 (a combining mark).
\*
\* the cased characters outside A-Z and a-z
OtherCased ==
    {"ª", "µ", "º", "À", "Á", "Â", "Ã", "Ä", "Å", "Æ", "Ç", "È", "É", "Ê",
     "Ë", "Ì", "Í", "Î", "Ï", "Ð", "Ñ", "Ò", "Ó", "Ô", "Õ", "Ö", "Ø", "Ù",
     "Ú", "Û", "Ü", "Ý", "Þ", "ß", "à", "á", "â", "ã", "ä", "å", "æ", "ç",
     "è", "é", "ê", "ë", "ì", "í", "î", "ï", "ð", "ñ", "ò", "ó", "ô", "õ",
     "ö", "ø", "ù", "ú", "û", "ü", "ý", "þ", "ÿ", "<U+0130>", "<U+0149>",
     "<U+0178>", "Ǆ", "ǅ", "ǆ", "Μ", "Σ", "μ", "ς", "σ", "<U+FB01>"}

\* the character has a case (what str.title and str.lower go by)
Cased(c) == c \in Letters \cup OtherCased

\* the characters a word may hold without an effect on the case of what
\* surrounds them (Case_Ignorable)
CaseIgnorable ==
    {"'", ".", ":", "^", "<U+0060>", "¨", "­", "¯", "´", "·", "¸", "ʼ",
     "<U+0307>"}

\* the lower case of the characters that have one other than themselves,
\* U+03A3 apart
ToLower ==
    <<<<"A", <<"a">>>>, <<"B", <<"b">>>>, <<"C", <<"c">>>>,
      <<"D", <<"d">>>>, <<"E", <<"e">>>>, <<"F", <<"f">>>>,
      <<"G", <<"g">>>>, <<"H", <<"h">>>>, <<"I", <<"i">>>>,
      <<"J", <<"j">>>>, <<"K", <<"k">>>>, <<"L", <<"l">>>>,
      <<"M", <<"m">>>>, <<"N", <<"n">>>>, <<"O", <<"o">>>>,
      <<"P", <<"p">>>>, <<"Q", <<"q">>>>, <<"R", <<"r">>>>,
      <<"S", <<"s">>>>, <<"T", <<"t">>>>, <<"U", <<"u">>>>,
      <<"V", <<"v">>>>, <<"W", <<"w">>>>, <<"X", <<"x">>>>,
      <<"Y", <<"y">>>>, <<"Z", <<"z">>>>, <<"À", <<"à">>>>,
      <<"Á", <<"á">>>>, <<"Â", <<"â">>>>, <<"Ã", <<"ã">>>>,
      <<"Ä", <<"ä">>>>, <<"Å", <<"å">>>>, <<"Æ", <<"æ">>>>,
      <<"Ç", <<"ç">>>>, <<"È", <<"è">>>>, <<"É", <<"é">>>>,
      <<"Ê", <<"ê">>>>, <<"Ë", <<"ë">>>>, <<"Ì", <<"ì">>>>,
      <<"Í", <<"í">>>>, <<"Î", <<"î">>>>, <<"Ï", <<"ï">>>>,
      <<"Ð", <<"ð">>>>, <<"Ñ", <<"ñ">>>>, <<"Ò", <<"ò">>>>,
      <<"Ó", <<"ó">>>>, <<"Ô", <<"ô">>>>, <<"Õ", <<"õ">>>>,
      <<"Ö", <<"ö">>>>, <<"Ø", <<"ø">>>>, <<"Ù", <<"ù">>>>,
      <<"Ú", <<"ú">>>>, <<"Û", <<"û">>>>, <<"Ü", <<"ü">>>>,
      <<"Ý", <<"ý">>>>, <<"Þ", <<"þ">>>>,
      <<"<U+0130>", <<"i", "<U+0307>">>>>, <<"<U+0178>", <<"ÿ">>>>,
      <<"Ǆ", <<"ǆ">>>>, <<"ǅ", <<"ǆ">>>>, <<"Μ", <<"μ">>>>>>

\* the title case of the characters that have one other than themselves
ToTitle ==
    <<<<"a", <<"A">>>>, <<"b", <<"B">>>>, <<"c", <<"C">>>>,
      <<"d", <<"D">>>>, <<"e", <<"E">>>>, <<"f", <<"F">>>>,
      <<"g", <<"G">>>>, <<"h", <<"H">>>>, <<"i", <<"I">>>>,
      <<"j", <<"J">>>>, <<"k", <<"K">>>>, <<"l", <<"L">>>>,
      <<"m", <<"M">>>>, <<"n", <<"N">>>>, <<"o", <<"O">>>>,
      <<"p", <<"P">>>>, <<"q", <<"Q">>>>, <<"r", <<"R">>>>,
      <<"s", <<"S">>>>, <<"t", <<"T">>>>, <<"u", <<"U">>>>,
      <<"v", <<"V">>>>, <<"w", <<"W">>>>, <<"x", <<"X">>>>,
      <<"y", <<"Y">>>>, <<"z", <<"Z">>>>, <<"µ", <<"Μ">>>>,
      <<"ß", <<"S", "s">>>>, <<"à", <<"À">>>>, <<"á", <<"Á">>>>,
      <<"â", <<"Â">>>>, <<"ã", <<"Ã">>>>, <<"ä", <<"Ä">>>>,
      <<"å", <<"Å">>>>, <<"æ", <<"Æ">>>>, <<"ç", <<"Ç">>>>,
      <<"è", <<"È">>>>, <<"é", <<"É">>>>, <<"ê", <<"Ê">>>>,
      <<"ë", <<"Ë">>>>, <<"ì", <<"Ì">>>>, <<"í", <<"Í">>>>,
      <<"î", <<"Î">>>>, <<"ï", <<"Ï">>>>, <<"ð", <<"Ð">>>>,
      <<"ñ", <<"Ñ">>>>, <<"ò", <<"Ò">>>>, <<"ó", <<"Ó">>>>,
      <<"ô", <<"Ô">>>>, <<"õ", <<"Õ">>>>, <<"ö", <<"Ö">>>>,
      <<"ø", <<"Ø">>>>, <<"ù", <<"Ù">>>>, <<"ú", <<"Ú">>>>,
      <<"û", <<"Û">>>>, <<"ü", <<"Ü">>>>, <<"ý", <<"Ý">>>>,
      <<"þ", <<"Þ">>>>, <<"ÿ", <<"<U+0178>">>>>,
      <<"<U+0149>", <<"ʼ", "N">>>>, <<"Ǆ", <<"ǅ">>>>, <<"ǆ", <<"ǅ">>>>,
      <<"μ", <<"Μ">>>>, <<"ς", <<"Σ">>>>, <<"σ", <<"Σ">>>>,
      <<"<U+FB01>", <<"F", "i">>>>>>

\* what the table maps the character to, or the character
Mapped(pairs, c) ==
    LET at == {i \in 1..Len(pairs) : pairs[i][1] = c}
    IN  IF at = {} THEN <<c>> ELSE pairs[CHOOSE i \in at : TRUE][2]

\* the capital sigma at position i of q ends a word: a cased character
\* precedes it, characters of CaseIgnorable apart, and none follows it
FinalSigma(q, i) ==
    LET before == {j \in 1..(i - 1) : q[j] \notin CaseIgnorable}
        after == {j \in (i + 1)..Len(q) : q[j] \notin CaseIgnorable}
    IN  /\ before # {}
        /\ Cased(q[CHOOSE j \in before : \A k \in before : k <= j])
        /\ after # {} => ~Cased(q[CHOOSE j \in after : \A k \in after : j <= k])

\* the lower case of the character at position i of q
LowerChar(q, i) ==
    IF q[i] = "Σ" THEN (IF FinalSigma(q, i) THEN <<"ς">> ELSE <<"σ">>)
    ELSE Mapped(ToLower, q[i])

\* the title case of a character
TitleChar(c) == Mapped(ToTitle, c)

\* str.lower
RECURSIVE LowerFrom(_, _)
LowerFrom(q, i) ==
    IF i > Len(q) THEN <<>> ELSE LowerChar(q, i) \o LowerFrom(q, i + 1)

Lower(q) == LowerFrom(q, 1)

\* str.title: a character is turned to title case after a character
\* without case and at the start, to lower case after a cased character
RECURSIVE TitleFrom(_, _)
TitleFrom(q, i) ==
    IF i > Len(q) THEN <<>>
    ELSE (IF i > 1 /\ Cased(q[i - 1]) THEN LowerChar(q, i) ELSE TitleChar(q[i]))
         \o TitleFrom(q, i + 1)

TitleCase(q) == TitleFrom(q, 1)

\* the characters outside A-Z, a-z and the decimal digits for which
\* str.isalnum() holds, among those of the tables above
OtherAlnum ==
    {"ª", "²", "³", "µ", "¹", "º", "¼", "½", "¾", "À", "Á", "Â", "Ã", "Ä",
     "Å", "Æ", "Ç", "È", "É", "Ê", "Ë", "Ì", "Í", "Î", "Ï", "Ð", "Ñ", "Ò",
     "Ó", "Ô", "Õ", "Ö", "Ø", "Ù", "Ú", "Û", "Ü", "Ý", "Þ", "ß", "à", "á",
     "â", "ã", "ä", "å", "æ", "ç", "è", "é", "ê", "ë", "ì", "í", "î", "ï",
     "ð", "ñ", "ò", "ó", "ô", "õ", "ö", "ø", "ù", "ú", "û", "ü", "ý", "þ",
     "ÿ", "<U+0130>", "<U+0149>", "<U+0178>", "Ǆ", "ǅ", "ǆ", "ʼ", "Μ", "Σ",
     "μ", "ς", "σ", "<U+FB01>"}

\* str.isalnum() of one character
Alnum == Letters \cup Digits \cup OtherAlnum

\* s[from:] of Python, from being a 1-based position
Rest(s, from) == SubSeq(s, from, Len(s))

\* number of leading characters of s, from position p on, that lie in cls
\* (what a greedy cls* consumes)
RECURSIVE Span(_, _, _)
Span(cls, s, p) ==
    IF p <= Len(s) /\ s[p] \in cls THEN 1 + Span(cls, s, p + 1) ELSE 0

\* number of trailing characters of s that lie in cls
RECURSIVE SpanBack(_, _)
SpanBack(cls, s) ==
    IF s # <<>> /\ s[Len(s)] \in cls
    THEN 1 + SpanBack(cls, SubSeq(s, 1, Len(s) - 1))
    ELSE 0

\* str.strip()
Strip(s) ==
    LET lead == Span(Whitespace, s, 1)
    IN  IF lead = Len(s) THEN <<>>
        ELSE SubSeq(s, lead + 1, Len(s) - SpanBack(Whitespace, s))

\* str.split('\n'): always at least one piece
RECURSIVE Split(_)
Split(s) ==
    LET first == CHOOSE k \in 1..(Len(s) + 1) :
                    /\ \A j \in 1..(k - 1) : s[j] # "\n"
                    /\ (k <= Len(s) => s[k] = "\n")
    IN  IF first > Len(s) THEN <<s>>
        ELSE <<SubSeq(s, 1, first - 1)>> \o Split(Rest(s, first + 1))

\* '\n'.join(parts)
RECURSIVE Join(_)
Join(parts) ==
    IF parts = <<>> THEN <<>>
    ELSE IF Len(parts) = 1 THEN parts[1]
    ELSE parts[1] \o <<"\n">> \o Join(Tail(parts))

\* the Python str whose characters are s
RECURSIVE Str(_)
Str(s) == IF s = <<>> THEN "" ELSE Head(s) \o Str(Tail(s))

\* s.startswith(prefix)
StartsWith(s, prefix) ==
    Len(s) >= Len(prefix) /\ SubSeq(s, 1, Len(prefix)) = prefix

\* the greatest position of character c in p, or 0
RFind(p, c) ==
    LET at == {i \in 1..Len(p) : p[i] = c}
    IN  IF at = {} THEN 0 ELSE CHOOSE i \in at : \A j \in at : j <= i

\* os.path.join(a, b)
PathJoin(a, b) ==
    IF b # <<>> /\ b[1] = "/" THEN b
    ELSE IF a = <<>> \/ a[Len(a)] = "/" THEN a \o b
    ELSE a \o <<"/">> \o b

\* os.path.basename(p)
os_path_basename(p) == SubSeq(p, RFind(p, "/") + 1, Len(p))

(***************************************************************************)
(* The four header patterns of parse_text.  A match is a record with the   *)
(* captured groups; NoMatch stands for the None that re.match returns.     *)
(***************************************************************************)
NoMatch == [ok |-> FALSE, group |-> <<>>]

\* re.match(r'^(Sec\.|Section)\s+(\d+[A-Za-z]?)\.\s*(.*)$', line)
section_pattern(line) ==
    LET kw == IF StartsWith(line, <<"S", "e", "c", ".">>) THEN 4
              ELSE IF StartsWith(line, <<"S", "e", "c", "t", "i", "o", "n">>) THEN 7
              ELSE 0
        ws == Span(Whitespace, line, kw + 1)
        numAt == kw + ws + 1
        nd == Span(Digits, line, numAt)
        nl == IF numAt + nd <= Len(line) /\ line[numAt + nd] \in Letters THEN 1 ELSE 0
        dotAt == numAt + nd + nl
        tailWs == Span(Whitespace, line, dotAt + 1)
    IN  IF kw > 0 /\ ws >= 1 /\ nd >= 1 /\ dotAt <= Len(line) /\ line[dotAt] = "."
        THEN [ok |-> TRUE,
              group |-> << SubSeq(line, 1, kw),
                           SubSeq(line, numAt, dotAt - 1),
                           Rest(line, dotAt + 1 + tailWs) >>]
        ELSE NoMatch

\* re.match(r'^§\s*(\d+[A-Za-z]?)\.\s*(.*)$', line)
subsection_pattern(line) ==
    LET ws == Span(Whitespace, line, 2)
        numAt == 2 + ws
        nd == Span(Digits, line, numAt)
        nl == IF numAt + nd <= Len(line) /\ line[numAt + nd] \in Letters THEN 1 ELSE 0
        dotAt == numAt + nd + nl
        tailWs == Span(Whitespace, line, dotAt + 1)
    IN  IF StartsWith(line, <<"§">>) /\ nd >= 1 /\ dotAt <= Len(line) /\ line[dotAt] = "."
        THEN [ok |-> TRUE,
              group |-> << SubSeq(line, numAt, dotAt - 1),
                           Rest(line, dotAt + 1 + tailWs) >>]
        ELSE NoMatch

\* re.match(r'^\(([a-z])\)\s*(.*)$', line)
lettered_subsec_pattern(line) ==
    LET tailWs == Span(Whitespace, line, 4)
    IN  IF Len(line) >= 3 /\ line[1] = "(" /\ line[2] \in LowerLetters /\ line[3] = ")"
        THEN [ok |-> TRUE,
              group |-> << SubSeq(line, 2, 2), Rest(line, 4 + tailWs) >>]
        ELSE NoMatch

\* a variant whose item number may hold letters as well: '^\(([0-9a-z]+)\)\s*(.*)$'
numbered_item_pattern_WithLetters(line) ==
    LET nd == Span(Digits \cup LowerLetters, line, 2)
        closeAt == 2 + nd
        tailWs == Span(Whitespace, line, closeAt + 1)
    IN  IF StartsWith(line, <<"(">>) /\ nd >= 1 /\ closeAt <= Len(line) /\ line[closeAt] = ")"
        THEN [ok |-> TRUE,
              group |-> << SubSeq(line, 2, closeAt - 1), Rest(line, closeAt + 1 + tailWs) >>]
        ELSE NoMatch

\* re.match(r'^\((\d+)\)\s*(.*)$', line)
numbered_item_pattern(line) ==
    LET nd == Span(Digits, line, 2)
        closeAt == 2 + nd
        tailWs == Span(Whitespace, line, closeAt + 1)
    IN  IF StartsWith(line, <<"(">>) /\ nd >= 1 /\ closeAt <= Len(line) /\ line[closeAt] = ")"
        THEN [ok |-> TRUE,
              group |-> << SubSeq(line, 2, closeAt - 1), Rest(line, closeAt + 1 + tailWs) >>]
        ELSE NoMatch

(***************************************************************************)
(* Input texts.  A text is built from at most MaxLines physical lines, one *)
(* of each kind the parser distinguishes, joined by newlines.              *)
(***************************************************************************)
\* a whitespace-only line
BlankLine == <<" ">>

\* "Sec. 1. T"
SecLine == <<"S", "e", "c", ".", " ", "1", ".", " ", "T">>

\* "§ 2. P"
SubsecLine == <<"§", " ", "2", ".", " ", "P">>

\* "(a) x"
LetterLine == <<"(", "a", ")", " ", "x">>

\* "(1) y"
NumLine == <<"(", "1", ")", " ", "y">>

\* "(2)": a numbered item header with no inline text
BareNumLine == <<"(", "2", ")">>

\* " z": a plain line, indented
PlainTextLine == <<" ", "z">>

\* "w": another plain line
OtherPlainLine == <<"w">>

SampleLines ==
    {BlankLine, SecLine, SubsecLine, LetterLine, NumLine, BareNumLine, PlainTextLine,
     OtherPlainLine}

\* all sequences over S of length at most n
RECURSIVE SeqsUpTo(_, _)
SeqsUpTo(S, n) ==
    IF n = 0 THEN {<<>>}
    ELSE LET shorter == SeqsUpTo(S, n - 1)
         IN  shorter \cup {Append(q, x) : q \in shorter, x \in S}

\* "x\x00y": a plain line that holds a character XML forbids
IllegalLine == <<"x", "<U+0000>", "y">>

\* the texts of at most MaxLines sample lines, and two with the line XML
\* forbids: on its own, and under a section
Texts ==
    {Join(ls) : ls \in SeqsUpTo(SampleLines, MaxLines)}
    \cup {IllegalLine, Join(<<SecLine, IllegalLine>>)}

\* "Section 2a.": a section header in the other spelling, with no heading
OtherSecLine == <<"S", "e", "c", "t", "i", "o", "n", " ", "2", "a", ".">>

VariedTexts ==
    {Join(ls) : ls \in SeqsUpTo(SampleLines \cup {OtherSecLine}, MaxVariedLines)}
    \cup {IllegalLine}

\* the lines that follow the section header in the texts on which the
\* order of the rendered children is compared with the order of the input
OrderLines == {BlankLine, SubsecLine, LetterLine, NumLine, OtherPlainLine}

\* texts that open a section in their first line, with up to MaxOrderLines
\* lines after it
OrderTexts ==
    {Join(<<SecLine>> \o ls) : ls \in SeqsUpTo(OrderLines, MaxOrderLines)}
    \cup {Join(<<SecLine, IllegalLine>>)}

\* the title argument of convert: absent, or the default
Titles == {"", "Statute"}

(***************************************************************************)
(* State.  The local variables of parse_text keep their names.  The        *)
(* references current_section and current_subsection are paths into        *)
(* structure: <<s>> is structure.sections[s], <<s, u>> is                  *)
(* structure.sections[s].subsections[u], and None is the empty path.       *)
(***************************************************************************)
VARIABLES
    pc,                  \* "parse_text", "loop", "build_xml", "done" or "raised"
    text,                \* the argument of convert / parse_text
    title,               \* the title argument of convert
    act_number,          \* the act_number argument of convert
    lines,               \* text.strip().split('\n')
    idx,                 \* position of the for loop in lines (1-based)
    structure,           \* {'preamble': [...], 'sections': [...]}
    current_section,
    current_subsection,
    in_preamble,
    xml_root,            \* the element tree build_xml returns, None before
    converter,           \* the fields of the AkomaNtosoConverter object (self)
    today                \* the date datetime.now() yields, as YYYY-MM-DD

\* the state of one conversion
convertVars == <<pc, text, title, act_number, lines, idx, structure,
                 current_section, current_subsection, in_preamble, xml_root,
                 converter, today>>

\* the classifier of parse_text applied to a single line
VARIABLES
    stripped,            \* the loop variable line after line.strip() (line 156)
    matches              \* which of the four re.match calls returned a match

classifyVars == <<stripped, matches>>

\* several convert calls, on one converter object or on two
VARIABLES
    calls,               \* per call: its arguments, locals and returned trees
    converters,          \* per converter object: the fields __init__ sets
    clock                \* the date datetime.now() gives

callVars == <<calls, converters, clock>>

\* one call of scrape(limit) on a scraper object
VARIABLES
    spc,                 \* where the call is: "scrape", "fetch_main", "loop",
                         \* "fetch_pdf", "returned" or "raised"
    limit,               \* the argument: None, or <<n>> for the integer n
    page,                \* the PDF links the listing page holds
    pdf_links,           \* find_pdf_links(soup)
    link_idx,            \* position of the for loop in pdf_links (1-based)
    downloaded,
    count,
    fetches,             \* the calls of fetch_page so far, each with its requests
    files,               \* the files written under output_dir
    ret                  \* what scrape returned

scrapeVars == <<spc, limit, page, pdf_links, link_idx, downloaded, count, fetches, files, ret>>

\* one call of generate_xml(parsed_data, scraper_metadata) on an XMLGenerator
VARIABLES
    gpc,                 \* where the call is: "generate_xml", "save", "returned"
    parsed_data,         \* the first argument
    scraper_metadata,    \* the second argument
    xml_content,         \* the root element the generator of the type built
    xml_files,           \* the files written under XML_DIR
    output_path          \* what generate_xml returned

generateVars == <<gpc, parsed_data, scraper_metadata, xml_content, xml_files, output_path>>

\* main of main.py: the scrapers run in turn and their PDFs are converted
VARIABLES
    mpc,                 \* where main is: "scrape", "scraping", "convert",
                         \* "generating", "done" or "raised"
    no_convert,          \* args.no_convert
    scrapers,            \* the document types of the scrapers to run
    scraper_idx,         \* position of the outer for loop (1-based)
    main_downloaded,     \* what scrape returned for the scraper at hand
    pdf_idx,             \* position of the inner for loop (1-based)
    total_downloaded,
    total_converted,
    conversions          \* how the body of the inner loop ended, per PDF

mainVars == <<mpc, no_convert, scrapers, scraper_idx, main_downloaded, pdf_idx,
              total_downloaded, total_converted, conversions>>

\* main of Akoma-Ntoso-XML-Converter.py: PDF -> TXT -> XML
VARIABLES
    ppc,                 \* where main is: "start", "loop", "body", "txt_saved",
                         \* "done"
    fitz,                \* whether PyMuPDF could be imported
    PdfReader,           \* whether pypdf could be imported
    pdf_files,           \* the PDFs found, sorted
    file_idx,            \* position of the for loop (1-based)
    processed,
    extractions,         \* the extractions called so far, with their outcomes
    txt_files,           \* the TXT files: name, content, whether complete
    out_files            \* the XML files of the output folder, likewise

pipeVars == <<ppc, fitz, PdfReader, pdf_files, file_idx, processed, extractions,
              txt_files, out_files>>

\* the state a conversion never touches
outside == <<classifyVars, callVars, scrapeVars, generateVars, mainVars, pipeVars>>

\* the state the classifier on its own never touches
outsideClassifier == <<convertVars, callVars, scrapeVars, generateVars, mainVars, pipeVars>>

\* the state the calls never touch
outsideCalls == <<convertVars, classifyVars, scrapeVars, generateVars, mainVars, pipeVars>>

\* the state a scraper never touches
outsideScraper == <<convertVars, classifyVars, callVars, generateVars, mainVars, pipeVars>>

\* the state an XML generator never touches
outsideGenerator == <<convertVars, classifyVars, callVars, scrapeVars, mainVars, pipeVars>>

\* the state main of main.py never touches, the scrapers and the XML
\* generator it calls apart
outsideMain == <<convertVars, classifyVars, callVars, pipeVars>>

\* the state the PDF pipeline never touches
outsidePipeline == <<convertVars, classifyVars, callVars, scrapeVars, generateVars, mainVars>>

vars == <<convertVars, outside>>

\* the arguments of the conversion and the converter: nothing writes them
args == <<text, title, act_number, converter, today>>

None == <<>>

\* a str entry of a section's content list; isinstance(c, str) is c.type = "str"
PlainLine(line) == [type |-> "str", value |-> line]

\* the object a current_section path refers to
SectionAt(st, ref) == st.sections[ref[1]]

\* the object a current_subsection path refers to
SubsectionAt(st, ref) == st.sections[ref[1]].subsections[ref[2]]

(***************************************************************************)
(* parse_text: the tree updates of the loop body, one operator per branch. *)
(***************************************************************************)
\* lines 164-171: the new section dict, appended to structure['sections']
NewSection(m) ==
    [type |-> "section", number |-> m.group[2], heading |-> m.group[3],
     content |-> <<>>, subsections |-> <<>>]

\* a variant that inserts the new section at the front
AppendSection_Prepends(st, m) ==
    [st EXCEPT !.sections = <<NewSection(m)>> \o @]

\* a variant that drops a section whose number an earlier section carries
AppendSection_DropsDuplicate(st, m) ==
    IF \E i \in 1..Len(st.sections) : st.sections[i].number = m.group[2]
    THEN st
    ELSE [st EXCEPT !.sections = Append(@, NewSection(m))]

AppendSection(st, m) ==
    [st EXCEPT !.sections = Append(@, NewSection(m))]

\* lines 178-185: the new subsection dict, appended to current_section['subsections']
NewSubsection(m) ==
    [type |-> "subsection", number |-> m.group[1], heading |-> m.group[2],
     content |-> <<>>, items |-> <<>>]

AppendSubsection(st, cs, m) ==
    [st EXCEPT !.sections[cs[1]].subsections = Append(@, NewSubsection(m))]

\* a variant that seeds the item with the wrong capture group
NewLetteredItem_WrongGroup(m) ==
    [type |-> "lettered_subsection", letter |-> m.group[1],
     content |-> <<m.group[1]>>]

\* lines 191-196: the lettered item, appended to current_subsection['items']
NewLetteredItem(m) ==
    [type |-> "lettered_subsection", letter |-> m.group[1],
     content |-> <<m.group[2]>>]

AppendLetteredItem(st, csub, m) ==
    [st EXCEPT !.sections[csub[1]].subsections[csub[2]].items =
                    Append(@, NewLetteredItem(m))]

\* a variant that always seeds the item with the inline remainder, empty or not
NewNumberedItem_AlwaysSeeded(m) ==
    [type |-> "numbered_item", number |-> m.group[1],
     content |-> <<Strip(m.group[2])>>]

\* lines 202-207: the numbered item dict
NewNumberedItem(m) ==
    LET content_text == Strip(m.group[2])
    IN  [type |-> "numbered_item", number |-> m.group[1],
         content |-> IF content_text # <<>> THEN <<content_text>> ELSE <<>>]

\* a variant that files the item of a subsection under its section as well
AppendNumberedItem_Both(st, cs, csub, m) ==
    IF csub # None
    THEN [st EXCEPT !.sections[csub[1]].subsections[csub[2]].items =
                        Append(@, NewNumberedItem(m)),
                    !.sections[csub[1]].content = Append(@, NewNumberedItem(m))]
    ELSE IF cs # None
    THEN [st EXCEPT !.sections[cs[1]].content = Append(@, NewNumberedItem(m))]
    ELSE st

\* a variant that tests current_section before current_subsection
AppendNumberedItem_SectionFirst(st, cs, csub, m) ==
    IF cs # None
    THEN [st EXCEPT !.sections[cs[1]].content = Append(@, NewNumberedItem(m))]
    ELSE IF csub # None
    THEN [st EXCEPT !.sections[csub[1]].subsections[csub[2]].items =
                        Append(@, NewNumberedItem(m))]
    ELSE st

\* lines 208-211: where the numbered item goes
AppendNumberedItem(st, cs, csub, m) ==
    IF csub # None
    THEN [st EXCEPT !.sections[csub[1]].subsections[csub[2]].items =
                        Append(@, NewNumberedItem(m))]
    ELSE IF cs # None
    THEN [st EXCEPT !.sections[cs[1]].content = Append(@, NewNumberedItem(m))]
    ELSE st

\* a variant that never looks at the items of the subsection
AppendToSubsection_IgnoresItems(st, csub, line) ==
    [st EXCEPT !.sections[csub[1]].subsections[csub[2]].content = Append(@, line)]

\* lines 217-227: a content line while a subsection is current
AppendToSubsection(st, csub, line) ==
    LET items == SubsectionAt(st, csub).items
    IN  IF items # <<>> /\ items[Len(items)].type \in {"lettered_subsection", "numbered_item"}
        THEN [st EXCEPT !.sections[csub[1]].subsections[csub[2]].items[Len(items)].content =
                            Append(@, line)]
        ELSE [st EXCEPT !.sections[csub[1]].subsections[csub[2]].content = Append(@, line)]

\* a variant that never continues a numbered item
AppendToSection_AlwaysPlain(st, cs, line) ==
    [st EXCEPT !.sections[cs[1]].content = Append(@, PlainLine(line))]

\* a variant that continues the last numbered item only when the item has
\* a line of its own
AppendToSection_SkipsEmptyItem(st, cs, line) ==
    LET content == SectionAt(st, cs).content
    IN  IF /\ content # <<>>
           /\ content[Len(content)].type = "numbered_item"
           /\ content[Len(content)].content # <<>>
        THEN [st EXCEPT !.sections[cs[1]].content[Len(content)].content = Append(@, line)]
        ELSE [st EXCEPT !.sections[cs[1]].content = Append(@, PlainLine(line))]

\* lines 228-233: a content line while only a section is current
AppendToSection(st, cs, line) ==
    LET content == SectionAt(st, cs).content
    IN  IF content # <<>> /\ content[Len(content)].type = "numbered_item"
        THEN [st EXCEPT !.sections[cs[1]].content[Len(content)].content = Append(@, line)]
        ELSE [st EXCEPT !.sections[cs[1]].content = Append(@, PlainLine(line))]

\* a variant without the in_preamble test: a line before the first section is lost
AppendContentLine_NoPreamble(st, cs, csub, pre, line) ==
    IF csub # None THEN AppendToSubsection(st, csub, line)
    ELSE IF cs # None THEN AppendToSection(st, cs, line)
    ELSE st

\* lines 214-233: the regular content line
AppendContentLine(st, cs, csub, pre, line) ==
    IF pre THEN [st EXCEPT !.preamble = Append(@, line)]
    ELSE IF csub # None THEN AppendToSubsection(st, csub, line)
    ELSE IF cs # None THEN AppendToSection(st, cs, line)
    ELSE st

\* which branch of the loop body a stripped, non-empty line takes (lines 160-214)
Branch(line, cs, csub) ==
    IF section_pattern(line).ok THEN "section"
    ELSE IF subsection_pattern(line).ok /\ cs # None THEN "subsection"
    ELSE IF lettered_subsec_pattern(line).ok /\ csub # None THEN "lettered"
    ELSE IF numbered_item_pattern(line).ok THEN "numbered"
    ELSE "content"

(***************************************************************************)
(* build_xml.  An element is a record: tag, attrib (the attributes in the  *)
(* order they were set, as <<name, value>> pairs), text (the empty string  *)
(* when none was set) and children (in the order SubElement made them).    *)
(***************************************************************************)
Elem(tag, attrib, txt, children) ==
    [tag |-> tag, attrib |-> attrib, text |-> txt, children |-> children]

\* str.replace('.', '_')
Replace(s) == [i \in 1..Len(s) |-> IF s[i] = "." THEN "_" ELSE s[i]]

\* lines 53-132
create_metadata(self, now, act_no) ==
    LET date_enacted == Str(self.date_enacted)
        uri_path == "/akn/" \o self.jurisdiction
                    \o (IF self.state # "" THEN "-" \o self.state ELSE "")
                    \o "/act/" \o Str(SubSeq(self.date_enacted, 1, 4)) \o "/"
                    \o (IF act_no # "" THEN act_no ELSE "statute")
        work == Elem("FRBRWork", <<>>, "", <<
            Elem("FRBRthis", << <<"value", uri_path \o "/!main">> >>, "", <<>>),
            Elem("FRBRuri", << <<"value", uri_path>> >>, "", <<>>),
            Elem("FRBRdate", << <<"date", date_enacted>>, <<"name", "Generation">> >>, "", <<>>),
            Elem("FRBRauthor", << <<"href", "#legislature">> >>, "", <<>>),
            Elem("FRBRcountry", << <<"value", self.jurisdiction>> >>, "", <<>>) >>)
        expression == Elem("FRBRExpression", <<>>, "", <<
            Elem("FRBRthis",
                 << <<"value", uri_path \o "/eng@" \o date_enacted \o "/!main">> >>, "", <<>>),
            Elem("FRBRuri", << <<"value", uri_path \o "/eng@" \o date_enacted>> >>, "", <<>>),
            Elem("FRBRdate", << <<"date", date_enacted>>, <<"name", "Expression">> >>, "", <<>>),
            Elem("FRBRauthor", << <<"href", "#legislature">> >>, "", <<>>),
            Elem("FRBRlanguage", << <<"language", "eng">> >>, "", <<>>) >>)
        manifest == Elem("FRBRManifestation", <<>>, "", <<
            Elem("FRBRthis",
                 << <<"value", uri_path \o "/eng@" \o date_enacted \o "/!main.xml">> >>, "", <<>>),
            Elem("FRBRuri",
                 << <<"value", uri_path \o "/eng@" \o date_enacted \o ".xml">> >>, "", <<>>),
            Elem("FRBRdate", << <<"date", Str(now)>>, <<"name", "XMLConversion">> >>, "", <<>>),
            Elem("FRBRauthor", << <<"href", "#converter">> >>, "", <<>>) >>)
        identification == Elem("identification", << <<"source", "#source">> >>, "",
                               <<work, expression, manifest>>)
        publication == Elem("publication",
            << <<"date", date_enacted>>, <<"name", "enacted">>, <<"showAs", "Enacted">> >>,
            "", <<>>)
        references == Elem("references", << <<"source", "#source">> >>, "", <<
            Elem("TLCOrganization",
                 << <<"eId", "legislature">>,
                    <<"href", IF self.state # ""
                              THEN "/akn/" \o self.jurisdiction \o "-" \o self.state
                                   \o "/legislature"
                              ELSE "/akn/" \o self.jurisdiction \o "/legislature">>,
                    <<"showAs", "Legislature">> >>, "", <<>>),
            Elem("TLCOrganization",
                 << <<"eId", "source">>, <<"href", "#">>, <<"showAs", "Original Source">> >>,
                 "", <<>>),
            Elem("TLCPerson",
                 << <<"eId", "converter">>, <<"href", "#">>, <<"showAs", "Document Converter">> >>,
                 "", <<>>) >>)
    IN  Elem("meta", <<>>, "", <<identification, publication, references>>)

\* a p element holding one line (lines 253-254, 294-295, 300-301, 338-339, 367-368)
P(line) == Elem("p", <<>>, Str(line), <<>>)

\* one p per line of a list of lines
Ps(ls) == [i \in 1..Len(ls) |-> P(ls[i])]

IsNumberedEntry(c) == c.type = "numbered_item"

IsStrEntry(c) == c.type = "str"

IsLettered(item) == item.type = "lettered_subsection"

\* a variant that derives the eId of an item from the parent, not from the list
ItemElem_NoListId(parent_id, item) ==
    Elem("item",
         << <<"eId", parent_id \o "__item_" \o Str(item.number)>> >>, "",
         <<Elem("num", <<>>, "(" \o Str(item.number) \o ")", <<>>)>> \o Ps(item.content))

\* lines 284-298 and 347-360: one item of a blockList
ItemElem(parent_id, item) ==
    Elem("item",
         << <<"eId", parent_id \o "__list_1__item_" \o Str(item.number)>> >>, "",
         <<Elem("num", <<>>, "(" \o Str(item.number) \o ")", <<>>)>> \o Ps(item.content))

\* lines 279-288, 343-351: the blockList of a parent
BlockListElem(parent_id, numbered) ==
    Elem("blockList", << <<"eId", parent_id \o "__list_1">> >>, "",
         [i \in 1..Len(numbered) |-> ItemElem(parent_id, numbered[i])])

\* a variant that renders no plain line of a section that has numbered items
SectionContent_DropsPlain(sec_id, content) ==
    LET has_items == \E i \in 1..Len(content) : IsNumberedEntry(content[i])
        strs == SelectSeq(content, IsStrEntry)
        plainPs == [i \in 1..Len(strs) |-> P(strs[i].value)]
    IN  IF content = <<>> THEN <<>>
        ELSE IF has_items
        THEN <<Elem("content", <<>>, "",
                    <<BlockListElem(sec_id, SelectSeq(content, IsNumberedEntry))>>)>>
        ELSE <<Elem("content", <<>>, "", plainPs)>>

\* a variant that keeps the plain lines ahead of the blockList, as in the input
SectionContent_InputOrder(sec_id, content) ==
    LET has_items == \E i \in 1..Len(content) : IsNumberedEntry(content[i])
        strs == SelectSeq(content, IsStrEntry)
        plainPs == [i \in 1..Len(strs) |-> P(strs[i].value)]
    IN  IF content = <<>> THEN <<>>
        ELSE IF has_items
        THEN <<Elem("content", <<>>, "",
                    plainPs
                    \o <<BlockListElem(sec_id, SelectSeq(content, IsNumberedEntry))>>)>>
        ELSE <<Elem("content", <<>>, "", plainPs)>>

\* lines 272-306: the content element of a section, as a list of 0 or 1 elements
SectionContent(sec_id, content) ==
    LET has_items == \E i \in 1..Len(content) : IsNumberedEntry(content[i])
        strs == SelectSeq(content, IsStrEntry)
        plainPs == [i \in 1..Len(strs) |-> P(strs[i].value)]
    IN  IF content = <<>> THEN <<>>
        ELSE IF has_items
        THEN <<Elem("content", <<>>, "",
                    <<BlockListElem(sec_id, SelectSeq(content, IsNumberedEntry))>>
                    \o plainPs)>>
        ELSE <<Elem("content", <<>>, "", plainPs)>>

\* lines 328-339: the nested subsection element of a lettered item; extra are
\* the p elements added later to the content element made at line 336
LetterElem(subsec_id, letter_sub, extra) ==
    Elem("subsection",
         << <<"eId", subsec_id \o "__subsec_" \o Str(letter_sub.letter)>> >>, "",
         << Elem("num", <<>>, "(" \o Str(letter_sub.letter) \o ")", <<>>),
            Elem("content", <<>>, "", Ps(letter_sub.content) \o extra) >>)

\* a variant that renders the lines of subsec['content'] only when the
\* subsection has no item
SubsectionBody_OwnOnlyWithoutItems(subsec_id, subsec) ==
    LET lettered_subsections == SelectSeq(subsec.items, IsLettered)
        numbered_items == SelectSeq(subsec.items, IsNumberedEntry)
        nl == Len(lettered_subsections)
        letterElems ==
            [i \in 1..nl |-> LetterElem(subsec_id, lettered_subsections[i], <<>>)]
    IN  IF subsec.content = <<>> /\ subsec.items = <<>> THEN <<>>
        ELSE letterElems
             \o (IF numbered_items # <<>>
                 THEN <<Elem("content", <<>>, "",
                             <<BlockListElem(subsec_id, numbered_items)>>)>>
                 ELSE <<>>)
             \o (IF subsec.content # <<>> /\ nl = 0 /\ numbered_items = <<>>
                 THEN <<Elem("content", <<>>, "", Ps(subsec.content))>>
                 ELSE <<>>)

\* lines 321-368: the children of a subsection element after num and heading.
\* The lines of subsec['content'] are appended to whatever content_elem was
\* assigned last: the blockList's content element, else the content element
\* of the last lettered item, else a new content element.
SubsectionBody(subsec_id, subsec) ==
    LET lettered_subsections == SelectSeq(subsec.items, IsLettered)
        numbered_items == SelectSeq(subsec.items, IsNumberedEntry)
        own == Ps(subsec.content)
        nl == Len(lettered_subsections)
        letterElems ==
            [i \in 1..nl |->
                LetterElem(subsec_id, lettered_subsections[i],
                           IF i = nl /\ numbered_items = <<>> THEN own ELSE <<>>)]
    IN  IF subsec.content = <<>> /\ subsec.items = <<>> THEN <<>>
        ELSE letterElems
             \o (IF numbered_items # <<>>
                 THEN <<Elem("content", <<>>, "",
                             <<BlockListElem(subsec_id, numbered_items)>> \o own)>>
                 ELSE <<>>)
             \o (IF subsec.content # <<>> /\ nl = 0 /\ numbered_items = <<>>
                 THEN <<Elem("content", <<>>, "", own)>>
                 ELSE <<>>)

\* lines 309-368: one subsection element
SubsectionElem(sec_id, subsec) ==
    LET subsec_id == sec_id \o "__subsec_" \o Str(subsec.number)
    IN  Elem("subsection", << <<"eId", subsec_id>> >>, "",
             <<Elem("num", <<>>, "§ " \o Str(subsec.number) \o ".", <<>>)>>
             \o (IF subsec.heading # <<>>
                 THEN <<Elem("heading", <<>>, Str(subsec.heading), <<>>)>> ELSE <<>>)
             \o SubsectionBody(subsec_id, subsec))

\* lines 259-368: one section element
SectionElem(section) ==
    LET sec_id == "sec_" \o Str(Replace(section.number))
    IN  Elem("section", << <<"eId", sec_id>> >>, "",
             <<Elem("num", <<>>, "Sec. " \o Str(section.number) \o ".", <<>>)>>
             \o (IF section.heading # <<>>
                 THEN <<Elem("heading", <<>>, Str(section.heading), <<>>)>> ELSE <<>>)
             \o SectionContent(sec_id, section.content)
             \o [i \in 1..Len(section.subsections) |->
                    SubsectionElem(sec_id, section.subsections[i])])

\* lines 249-254: the preamble element, as a list of 0 or 1 elements
PreambleElems(st) ==
    IF st.preamble # <<>> THEN <<Elem("preamble", <<>>, "", Ps(st.preamble))>> ELSE <<>>

\* a variant that makes the preface element for an empty title as well
PrefaceElems_Always(ttl) ==
    <<Elem("preface", <<>>, "",
           <<Elem("p", <<>>, "", <<Elem("docType", <<>>, ttl, <<>>)>>)>>)>>

\* lines 242-247: the preface element, as a list of 0 or 1 elements
PrefaceElems(ttl) ==
    IF ttl # ""
    THEN <<Elem("preface", <<>>, "",
                <<Elem("p", <<>>, "", <<Elem("docType", <<>>, ttl, <<>>)>>)>>)>>
    ELSE <<>>

\* a variant that renders only the sections that have a heading
BodyElem_SkipsUnheaded(st) ==
    LET headed == SelectSeq(st.sections, LAMBDA section : section.heading # <<>>)
    IN  Elem("body", <<>>, "", [i \in 1..Len(headed) |-> SectionElem(headed[i])])

\* lines 256-368: the body element
BodyElem(st) ==
    Elem("body", <<>>, "", [i \in 1..Len(st.sections) |-> SectionElem(st.sections[i])])

\* a variant that puts the p elements of the preamble lines at the head of body
build_xml_PreambleInBody(self, now, st, ttl, act_no) ==
    LET body == Elem("body", <<>>, "", Ps(st.preamble) \o BodyElem(st).children)
        act == Elem("act", << <<"name", "act">> >>, "",
                    <<create_metadata(self, now, act_no)>>
                    \o PrefaceElems(ttl)
                    \o <<body>>)
    IN  Elem("akomaNtoso",
             << <<"xmlns", "http://docs.oasis-open.org/legaldocml/ns/akn/3.0">> >>, "",
             <<act>>)

\* lines 237-370, with create_root (lines 45-51) inlined
build_xml(self, now, st, ttl, act_no) ==
    LET act == Elem("act", << <<"name", "act">> >>, "",
                    <<create_metadata(self, now, act_no)>>
                    \o PrefaceElems(ttl)
                    \o PreambleElems(st)
                    \o <<BodyElem(st)>>)
    IN  Elem("akomaNtoso",
             << <<"xmlns", "http://docs.oasis-open.org/legaldocml/ns/akn/3.0">> >>, "",
             <<act>>)

(***************************************************************************)
(* prettify_xml: what minidom.parseString accepts.                         *)
(***************************************************************************)
\* the hexadecimal digits, of which the notation of a code point is made
HexDigits ==
    {"0", "1", "2", "3", "4", "5", "6", "7", "8", "9", "A", "B", "C", "D", "E", "F"}

\* the characters minidom.parseString refuses in the serialized document:
\* the control characters below U+0020 other than \t, \n and \r, the
\* noncharacters U+FFFE and U+FFFF (expat), and the surrogates U+D800 to
\* U+DFFF (they cannot be encoded)
XmlIllegalChars ==
    {"<U+0000>", "<U+0001>", "<U+0002>", "<U+0003>", "<U+0004>",
     "<U+0005>", "<U+0006>", "<U+0007>", "<U+0008>", "<U+000B>", "\f",
     "<U+000E>", "<U+000F>", "<U+0010>", "<U+0011>", "<U+0012>",
     "<U+0013>", "<U+0014>", "<U+0015>", "<U+0016>", "<U+0017>",
     "<U+0018>", "<U+0019>", "<U+001A>", "<U+001B>", "<U+001C>",
     "<U+001D>", "<U+001E>", "<U+001F>", "<U+FFFE>", "<U+FFFF>"}
    \cup {"<U+D" \o a \o b \o c \o ">" :
            a \in {"8", "9", "A", "B", "C", "D", "E", "F"}, b \in HexDigits, c \in HexDigits}

\* the texts and the attribute values of an element and of the elements
\* below it
RECURSIVE TreeStrings(_)
TreeStrings(e) ==
    {e.text} \cup {e.attrib[i][2] : i \in 1..Len(e.attrib)}
    \cup UNION {TreeStrings(e.children[i]) : i \in 1..Len(e.children)}

\* the sequence holds a character XML forbids
Forbidden(q) == \E i \in 1..Len(q) : q[i] \in XmlIllegalChars

\* the parts of the lines of a text that hold a character XML forbids, as
\* strings; what build_xml takes from the text into a p, a heading or a
\* content is such a part
ForbiddenParts(txt) ==
    LET ls == Split(txt)
        parts(l) == {SubSeq(l, i, j) : i, j \in 1..Len(l)}
    IN  UNION {{Str(q) : q \in {r \in parts(ls[n]) : Forbidden(r)}} : n \in 1..Len(ls)}

\* prettify_xml, lines 374-376: minidom accepts the serialized tree built
\* from the text with the act number name
Prettifies(root, txt, name) ==
    /\ ~Forbidden(name)
    /\ TreeStrings(root) \cap ForbiddenParts(txt) = {}

(***************************************************************************)
(* Actions of parse_text.                                                  *)
(***************************************************************************)
\* no line is being classified on its own
ClassifierIdle == stripped = <<>> /\ matches = <<>>

\* no call is under way
CallsIdle == calls = <<>> /\ converters = <<>> /\ clock = <<>>

\* no scraper is running
ScraperIdle ==
    /\ spc = "idle"
    /\ limit = None
    /\ page = <<>>
    /\ pdf_links = <<>>
    /\ link_idx = 1
    /\ downloaded = <<>>
    /\ count = 0
    /\ fetches = <<>>
    /\ files = {}
    /\ ret = None

\* no XML generator is running
GeneratorIdle ==
    /\ gpc = "idle"
    /\ parsed_data = None
    /\ scraper_metadata = None
    /\ xml_content = None
    /\ xml_files = {}
    /\ output_path = None

\* main of main.py is not running
MainIdle ==
    /\ mpc = "idle"
    /\ no_convert = FALSE
    /\ scrapers = <<>>
    /\ scraper_idx = 1
    /\ main_downloaded = <<>>
    /\ pdf_idx = 1
    /\ total_downloaded = 0
    /\ total_converted = 0
    /\ conversions = <<>>

\* the PDF pipeline is not running
PipelineIdle ==
    /\ ppc = "idle"
    /\ fitz = FALSE
    /\ PdfReader = FALSE
    /\ pdf_files = <<>>
    /\ file_idx = 1
    /\ processed = 0
    /\ extractions = <<>>
    /\ txt_files = {}
    /\ out_files = {}

\* convert is entered on a converter built as main builds it (lines 527-532);
\* the locals of parse_text hold the values lines 140-147 give them
InitWith(texts, titles) ==
    /\ pc = "parse_text"
    /\ text \in texts
    /\ title \in titles
    /\ act_number = ""
    /\ lines = <<>>
    /\ idx = 1
    /\ structure = [preamble |-> <<>>, sections |-> <<>>]
    /\ current_section = None
    /\ current_subsection = None
    /\ in_preamble = TRUE
    /\ xml_root = None
    /\ today = <<"2", "0", "2", "6", "-", "1", "0", "-", "3", "0">>
    /\ converter = [jurisdiction |-> "us", state |-> "vt", date_enacted |-> today]
    /\ ClassifierIdle
    /\ CallsIdle
    /\ ScraperIdle
    /\ GeneratorIdle
    /\ MainIdle
    /\ PipelineIdle

\* convert with its default title and act_number (line 378)
Init == InitWith(Texts, {"Statute"})

\* convert with or without a title, on texts that can hold two different sections
InitVaried == InitWith(VariedTexts, Titles)

\* lines 139-147: split the text and set up the locals
ParseStart ==
    /\ pc = "parse_text"
    /\ lines' = Split(Strip(text))
    /\ idx' = 1
    /\ structure' = [preamble |-> <<>>, sections |-> <<>>]
    /\ current_section' = None
    /\ current_subsection' = None
    /\ in_preamble' = TRUE
    /\ pc' = "loop"
    /\ UNCHANGED <<args, outside, xml_root>>

\* the loop variable after line 156
CurrentLine == Strip(lines[idx])

InLoop == pc = "loop" /\ idx <= Len(lines)

\* a variant in which a blank line closes the current subsection
SkipBlank_ClosesSubsection ==
    /\ InLoop
    /\ CurrentLine = <<>>
    /\ idx' = idx + 1
    /\ current_subsection' = None
    /\ UNCHANGED <<pc, args, outside, lines, structure,
                   current_section, in_preamble, xml_root>>

\* lines 157-158: a line that is empty after strip() is skipped
SkipBlank ==
    /\ InLoop
    /\ CurrentLine = <<>>
    /\ idx' = idx + 1
    /\ UNCHANGED <<pc, args, outside, lines, structure,
                   current_section, current_subsection, in_preamble, xml_root>>

\* a variant that forgets to clear current_subsection
SectionHeader_KeepsSubsection ==
    /\ InLoop
    /\ CurrentLine # <<>>
    /\ Branch(CurrentLine, current_section, current_subsection) = "section"
    /\ in_preamble' = FALSE
    /\ structure' = AppendSection(structure, section_pattern(CurrentLine))
    /\ current_section' = <<Len(structure'.sections)>>
    /\ idx' = idx + 1
    /\ UNCHANGED <<pc, args, outside, lines, xml_root, current_subsection>>

\* a variant that leaves the preamble mode on
SectionHeader_StaysInPreamble ==
    /\ InLoop
    /\ CurrentLine # <<>>
    /\ Branch(CurrentLine, current_section, current_subsection) = "section"
    /\ structure' = AppendSection(structure, section_pattern(CurrentLine))
    /\ current_section' = <<Len(structure'.sections)>>
    /\ current_subsection' = None
    /\ idx' = idx + 1
    /\ UNCHANGED <<pc, args, outside, lines, xml_root, in_preamble>>

\* lines 160-173
SectionHeader ==
    /\ InLoop
    /\ CurrentLine # <<>>
    /\ Branch(CurrentLine, current_section, current_subsection) = "section"
    /\ in_preamble' = FALSE
    /\ structure' = AppendSection(structure, section_pattern(CurrentLine))
    /\ current_section' = <<Len(structure'.sections)>>
    /\ current_subsection' = None
    /\ idx' = idx + 1
    /\ UNCHANGED <<pc, args, outside, lines, xml_root>>

\* lines 175-186
SubsectionHeader ==
    /\ InLoop
    /\ CurrentLine # <<>>
    /\ Branch(CurrentLine, current_section, current_subsection) = "subsection"
    /\ structure' = AppendSubsection(structure, current_section,
                                     subsection_pattern(CurrentLine))
    /\ current_subsection' =
          <<current_section[1], Len(SectionAt(structure', current_section).subsections)>>
    /\ idx' = idx + 1
    /\ UNCHANGED <<pc, args, outside, lines, current_section,
                   in_preamble, xml_root>>

\* lines 188-197
LetteredItemHeader ==
    /\ InLoop
    /\ CurrentLine # <<>>
    /\ Branch(CurrentLine, current_section, current_subsection) = "lettered"
    /\ structure' = AppendLetteredItem(structure, current_subsection,
                                       lettered_subsec_pattern(CurrentLine))
    /\ idx' = idx + 1
    /\ UNCHANGED <<pc, args, outside, lines, current_section,
                   current_subsection, in_preamble, xml_root>>

\* lines 199-212
NumberedItemHeader ==
    /\ InLoop
    /\ CurrentLine # <<>>
    /\ Branch(CurrentLine, current_section, current_subsection) = "numbered"
    /\ structure' = AppendNumberedItem(structure, current_section, current_subsection,
                                       numbered_item_pattern(CurrentLine))
    /\ idx' = idx + 1
    /\ UNCHANGED <<pc, args, outside, lines, current_section,
                   current_subsection, in_preamble, xml_root>>

\* lines 214-233
ContentLine ==
    /\ InLoop
    /\ CurrentLine # <<>>
    /\ Branch(CurrentLine, current_section, current_subsection) = "content"
    /\ structure' = AppendContentLine(structure, current_section, current_subsection,
                                      in_preamble, CurrentLine)
    /\ idx' = idx + 1
    /\ UNCHANGED <<pc, args, outside, lines, current_section,
                   current_subsection, in_preamble, xml_root>>

\* line 235: the loop is over, parse_text returns structure to convert (line 390)
ParseReturn ==
    /\ pc = "loop"
    /\ idx > Len(lines)
    /\ pc' = "build_xml"
    /\ UNCHANGED <<args, outside, lines, idx, structure,
                   current_section, current_subsection, in_preamble, xml_root>>

\* lines 391-392: convert hands the structure to build_xml and the tree to
\* prettify_xml, which returns the document; act_number is "" in the
\* conversions of this specification
BuildXml ==
    /\ pc = "build_xml"
    /\ Prettifies(build_xml(converter, today, structure, title, act_number), text, <<>>)
    /\ xml_root' = build_xml(converter, today, structure, title, act_number)
    /\ pc' = "done"
    /\ UNCHANGED <<args, outside, lines, idx, structure,
                   current_section, current_subsection, in_preamble>>

\* lines 391-392 and 375: the tree is built, minidom.parseString refuses
\* its serialization and the exception leaves convert
PrettifyRaises ==
    /\ pc = "build_xml"
    /\ ~Prettifies(build_xml(converter, today, structure, title, act_number), text, <<>>)
    /\ xml_root' = build_xml(converter, today, structure, title, act_number)
    /\ pc' = "raised"
    /\ UNCHANGED <<args, outside, lines, idx, structure,
                   current_section, current_subsection, in_preamble>>

\* lines 147 and 142-145: the locals of parse_text before the loop
BuilderStart ==
    [structure |-> [preamble |-> <<>>, sections |-> <<>>],
     current_section |-> None, current_subsection |-> None, in_preamble |-> TRUE]

\* lines 160-233: the loop body on a stripped, non-empty line, as a function
\* from the locals before it to the locals after it
LoopBody(b, line) ==
    LET cs == b.current_section
        csub == b.current_subsection
        branch == Branch(line, cs, csub)
    IN  IF branch = "section"
        THEN LET st == AppendSection(b.structure, section_pattern(line))
             IN  [structure |-> st, current_section |-> <<Len(st.sections)>>,
                  current_subsection |-> None, in_preamble |-> FALSE]
        ELSE IF branch = "subsection"
        THEN LET st == AppendSubsection(b.structure, cs, subsection_pattern(line))
             IN  [b EXCEPT !.structure = st,
                           !.current_subsection =
                               <<cs[1], Len(SectionAt(st, cs).subsections)>>]
        ELSE IF branch = "lettered"
        THEN [b EXCEPT !.structure =
                 AppendLetteredItem(b.structure, csub, lettered_subsec_pattern(line))]
        ELSE IF branch = "numbered"
        THEN [b EXCEPT !.structure =
                 AppendNumberedItem(b.structure, cs, csub, numbered_item_pattern(line))]
        ELSE [b EXCEPT !.structure =
                 AppendContentLine(b.structure, cs, csub, b.in_preamble, line)]

Next ==
    \/ ParseStart
    \/ SkipBlank
    \/ SectionHeader
    \/ SubsectionHeader
    \/ LetteredItemHeader
    \/ NumberedItemHeader
    \/ ContentLine
    \/ ParseReturn
    \/ BuildXml
    \/ PrettifyRaises

Spec == Init /\ [][Next]_vars

SpecVaried == InitVaried /\ [][Next]_vars

\* convert on the texts that open a section in their first line
InitOrder == InitWith(OrderTexts, {"Statute"})

SpecOrder == InitOrder /\ [][Next]_vars

(***************************************************************************)
(* Definitions shared by the properties.                                   *)
(***************************************************************************)
\* the class of a stripped, non-empty line, by the first pattern that
\* matches it.  The branch the loop takes for the line is Branch, which also
\* looks at current_section and current_subsection.
Class(line) ==
    IF section_pattern(line).ok THEN "SectionHeader"
    ELSE IF subsection_pattern(line).ok THEN "SubsectionHeader"
    ELSE IF lettered_subsec_pattern(line).ok THEN "LetteredItemHeader"
    ELSE IF numbered_item_pattern(line).ok THEN "NumberedItemHeader"
    ELSE "PlainText"

\* this step is a loop iteration on a non-blank line
ProcessingLine == InLoop /\ CurrentLine # <<>>

\* the state is one reached by a loop iteration on a non-blank line
ProcessedLine == pc = "loop" /\ idx > 1 /\ Strip(lines[idx - 1]) # <<>>

\* the line that iteration was about
PrevLine == Strip(lines[idx - 1])

\* the list-valued places of a tree, each with its length: the preamble, the
\* sections, every section's content and subsections, every subsection's
\* content and items, and every item's lines
Containers(st) ==
    {[path |-> <<"preamble">>, len |-> Len(st.preamble)],
     [path |-> <<"sections">>, len |-> Len(st.sections)]}
    \cup {[path |-> <<"sections", s, "content">>, len |-> Len(st.sections[s].content)] :
             s \in 1..Len(st.sections)}
    \cup {[path |-> <<"sections", s, "subsections">>,
           len |-> Len(st.sections[s].subsections)] : s \in 1..Len(st.sections)}
    \cup UNION {{[path |-> <<"sections", s, "content", k, "content">>,
                  len |-> Len(st.sections[s].content[k].content)] :
                    k \in {j \in 1..Len(st.sections[s].content) :
                              st.sections[s].content[j].type = "numbered_item"}} :
                s \in 1..Len(st.sections)}
    \cup UNION {{[path |-> <<"sections", s, "subsections", u, "content">>,
                  len |-> Len(st.sections[s].subsections[u].content)] :
                    u \in 1..Len(st.sections[s].subsections)} : s \in 1..Len(st.sections)}
    \cup UNION {{[path |-> <<"sections", s, "subsections", u, "items">>,
                  len |-> Len(st.sections[s].subsections[u].items)] :
                    u \in 1..Len(st.sections[s].subsections)} : s \in 1..Len(st.sections)}
    \cup UNION {UNION {{[path |-> <<"sections", s, "subsections", u, "items", k, "content">>,
                         len |-> Len(st.sections[s].subsections[u].items[k].content)] :
                          k \in 1..Len(st.sections[s].subsections[u].items)} :
                        u \in 1..Len(st.sections[s].subsections)} :
                s \in 1..Len(st.sections)}

\* the places of the old tree that are one element longer in the new tree
Grown(old, new) ==
    {c \in Containers(old) : [path |-> c.path, len |-> c.len + 1] \in Containers(new)}

\* the places of the old tree whose length differs in the new tree, or that are gone
Resized(old, new) == {c \in Containers(old) : c \notin Containers(new)}

(***************************************************************************)
(* C1.  Every non-blank line is stored in exactly one node of the tree:    *)
(* the loop iteration on a non-blank line makes exactly one list of the    *)
(* tree one element longer (the preamble, a content list, an item's lines, *)
(* the sections, a section's subsections or a subsection's items) and      *)
(* changes the length of no other list; no line is dropped, none is        *)
(* stored twice.                                                           *)
(***************************************************************************)
C1_EveryLineStoredOnce ==
    [][ProcessingLine =>
          /\ Cardinality(Grown(structure, structure')) = 1
          /\ Resized(structure, structure') = Grown(structure, structure')]_vars

(***************************************************************************)
(* C2.  A NumberedItemHeader line is routed three ways: to the items of    *)
(* the current subsection; else to the content of the current section;     *)
(* else, no section being open, it is appended to the preamble as a plain  *)
(* line.                                                                   *)
(***************************************************************************)
C2_NumberedItemRouting ==
    [][(ProcessingLine /\ Class(CurrentLine) = "NumberedItemHeader") =>
          LET m == numbered_item_pattern(CurrentLine)
              item == [type |-> "numbered_item", number |-> m.group[1],
                       content |-> IF Strip(m.group[2]) # <<>>
                                   THEN <<Strip(m.group[2])>> ELSE <<>>]
          IN  IF current_subsection # None
              THEN structure' =
                     [structure EXCEPT
                        !.sections[current_subsection[1]]
                         .subsections[current_subsection[2]].items = Append(@, item)]
              ELSE IF current_section # None
              THEN structure' =
                     [structure EXCEPT
                        !.sections[current_section[1]].content = Append(@, item)]
              ELSE structure' =
                     [structure EXCEPT !.preamble = Append(@, CurrentLine)]]_vars

\* the numbered items of a tree, wherever they hang
NumberedItems(st) ==
    UNION {{st.sections[s].content[k] :
                k \in {j \in 1..Len(st.sections[s].content) :
                          st.sections[s].content[j].type = "numbered_item"}} :
            s \in 1..Len(st.sections)}
    \cup UNION {UNION {{st.sections[s].subsections[u].items[k] :
                           k \in {j \in 1..Len(st.sections[s].subsections[u].items) :
                                     st.sections[s].subsections[u].items[j].type
                                        = "numbered_item"}} :
                        u \in 1..Len(st.sections[s].subsections)} :
                s \in 1..Len(st.sections)}

\* the list a numbered item header is appended to while a section is current
NumberedTarget ==
    IF current_subsection # None
    THEN SubsectionAt(structure, current_subsection).items
    ELSE SectionAt(structure, current_section).content

\* the last element of a non-empty list
Last(q) == q[Len(q)]

(***************************************************************************)
(* C3, as claimed.  In every reachable builder state every NumberedItem    *)
(* has a non-empty lines sequence.                                         *)
(***************************************************************************)
C3_NumberedItemLinesNonEmpty ==
    \A item \in NumberedItems(structure) : item.content # <<>>

(***************************************************************************)
(* C3, amended.  In every reachable builder state no line of a             *)
(* NumberedItem is the empty string; at creation the lines of a            *)
(* NumberedItem are the one-element sequence holding the header's stripped *)
(* inline remainder when that remainder is non-empty, and the empty        *)
(* sequence when the header carries no inline text.                        *)
(***************************************************************************)
C3_NumberedItemLinesAmended ==
    /\ \A item \in NumberedItems(structure) :
          \A j \in 1..Len(item.content) : item.content[j] # <<>>
    /\ (ProcessedLine /\ Class(PrevLine) = "NumberedItemHeader" /\ current_section # None) =>
          LET m == numbered_item_pattern(PrevLine)
              remainder == Strip(m.group[2])
          IN  /\ NumberedTarget # <<>>
              /\ Last(NumberedTarget).type = "numbered_item"
              /\ Last(NumberedTarget).number = m.group[1]
              /\ Last(NumberedTarget).content =
                    IF remainder # <<>> THEN <<remainder>> ELSE <<>>

\* a numbered item header without inline text has just made an item with no line
C3_Witness ==
    /\ ProcessedLine
    /\ PrevLine = BareNumLine
    /\ current_section # None
    /\ NumberedTarget # <<>>
    /\ Last(NumberedTarget).type = "numbered_item"
    /\ Last(NumberedTarget).content = <<>>

(***************************************************************************)
(* C4.  While a subsection is current, a PlainText line is appended to the *)
(* lines of the last item of that subsection if it has any item, and       *)
(* otherwise to the subsection's own content; nothing else in the tree     *)
(* changes (not the enclosing section's content, not the preamble, not     *)
(* another item).                                                          *)
(***************************************************************************)
C4_PlainLineUnderSubsection ==
    [][(ProcessingLine /\ Class(CurrentLine) = "PlainText" /\ current_subsection # None) =>
          LET s == current_subsection[1]
              u == current_subsection[2]
              n == Len(structure.sections[s].subsections[u].items)
          IN  structure' =
                IF n > 0
                THEN [structure EXCEPT
                        !.sections[s].subsections[u].items[n].content =
                            Append(@, CurrentLine)]
                ELSE [structure EXCEPT
                        !.sections[s].subsections[u].content = Append(@, CurrentLine)]]_vars

\* a plain line has just continued the last item of the current subsection
C4_Witness ==
    /\ ProcessedLine
    /\ Class(PrevLine) = "PlainText"
    /\ current_subsection # None
    /\ SubsectionAt(structure, current_subsection).items # <<>>
    /\ Last(SubsectionAt(structure, current_subsection).items).content # <<>>
    /\ Last(Last(SubsectionAt(structure, current_subsection).items).content) = PrevLine
    /\ SubsectionAt(structure, current_subsection).content = <<>>

(***************************************************************************)
(* C5.  While a section is current and no subsection is, a PlainText line  *)
(* is appended to the lines of the section's last content entry when that  *)
(* entry is a NumberedItem, and otherwise is appended to the section's     *)
(* content as a new PlainLine.                                             *)
(***************************************************************************)
C5_PlainLineUnderSection ==
    [][(/\ ProcessingLine
        /\ Class(CurrentLine) = "PlainText"
        /\ current_section # None
        /\ current_subsection = None) =>
          LET s == current_section[1]
              n == Len(structure.sections[s].content)
          IN  structure' =
                IF n > 0 /\ structure.sections[s].content[n].type = "numbered_item"
                THEN [structure EXCEPT
                        !.sections[s].content[n].content = Append(@, CurrentLine)]
                ELSE [structure EXCEPT
                        !.sections[s].content =
                            Append(@, [type |-> "str", value |-> CurrentLine])]]_vars

\* a plain line has just continued the numbered item that ends a section's content
C5_Witness ==
    /\ ProcessedLine
    /\ Class(PrevLine) = "PlainText"
    /\ current_section # None
    /\ current_subsection = None
    /\ SectionAt(structure, current_section).content # <<>>
    /\ Last(SectionAt(structure, current_section).content).type = "numbered_item"
    /\ Last(Last(SectionAt(structure, current_section).content).content) = PrevLine

(***************************************************************************)
(* C6.  Every SectionHeader line appends a new Section at the end of       *)
(* Document.sections, makes it the current section, leaves preamble mode   *)
(* and clears the current subsection; and a lettered item, numbered item   *)
(* or plain line changes no section but the last one, so it is never       *)
(* attached to a subsection of an earlier section.                         *)
(***************************************************************************)
C6_SectionHeaderOpensSection ==
    [][/\ (ProcessingLine /\ Class(CurrentLine) = "SectionHeader") =>
             LET m == section_pattern(CurrentLine)
             IN  /\ structure'.sections =
                       Append(structure.sections,
                              [type |-> "section", number |-> m.group[2],
                               heading |-> m.group[3], content |-> <<>>,
                               subsections |-> <<>>])
                 /\ structure'.preamble = structure.preamble
                 /\ current_section' = <<Len(structure.sections) + 1>>
                 /\ in_preamble' = FALSE
                 /\ current_subsection' = None
       /\ (/\ ProcessingLine
           /\ Class(CurrentLine) \in {"LetteredItemHeader", "NumberedItemHeader", "PlainText"}) =>
             /\ Len(structure'.sections) = Len(structure.sections)
             /\ \A s \in 1..(Len(structure.sections) - 1) :
                   structure'.sections[s] = structure.sections[s]]_vars

\* a plain line after the second section header went to the second section,
\* although the first section has a subsection
C6_Witness ==
    /\ ProcessedLine
    /\ Class(PrevLine) = "PlainText"
    /\ Len(structure.sections) = 2
    /\ structure.sections[1].subsections # <<>>
    /\ current_section = <<2>>
    /\ current_subsection = None
    /\ structure.sections[2].content = <<[type |-> "str", value |-> PrevLine]>>

(***************************************************************************)
(* C7.  A SubsectionHeader line creates a Subsection, appended to the      *)
(* current section's subsections and made current, exactly when a section  *)
(* is current; when no section has been opened it creates none and the     *)
(* full line is appended to the preamble.                                  *)
(***************************************************************************)
C7_SubsectionHeaderStep ==
    [][(ProcessingLine /\ Class(CurrentLine) = "SubsectionHeader") =>
          LET m == subsection_pattern(CurrentLine)
          IN  IF current_section # None
              THEN /\ structure' =
                        [structure EXCEPT
                           !.sections[current_section[1]].subsections =
                               Append(@, [type |-> "subsection", number |-> m.group[1],
                                          heading |-> m.group[2], content |-> <<>>,
                                          items |-> <<>>])]
                   /\ current_subsection' =
                        <<current_section[1],
                          Len(structure.sections[current_section[1]].subsections) + 1>>
              ELSE /\ structure' = [structure EXCEPT !.preamble = Append(@, CurrentLine)]
                   /\ current_subsection' = None]_vars

\* one subsection header came before any section and is a preamble line, a
\* later one made the subsection of the section that is now current
C7_Witness ==
    /\ ProcessedLine
    /\ Class(PrevLine) = "SubsectionHeader"
    /\ structure.preamble = <<PrevLine>>
    /\ current_section # None
    /\ current_subsection = <<current_section[1], 1>>
    /\ SubsectionAt(structure, current_subsection).number
          = subsection_pattern(PrevLine).group[1]

(***************************************************************************)
(* C8.  A LetteredItemHeader line creates a LetteredItem, appended to the  *)
(* current subsection's items and seeded with the captured first line,     *)
(* exactly when a subsection is current; otherwise it creates no item and  *)
(* the full line follows the PlainText rules: to the preamble before the   *)
(* first section, else to the lines of the numbered item that ends the     *)
(* current section's content, else to that content as a new PlainLine.     *)
(***************************************************************************)
C8_LetteredItemHeaderStep ==
    [][(ProcessingLine /\ Class(CurrentLine) = "LetteredItemHeader") =>
          LET m == lettered_subsec_pattern(CurrentLine)
          IN  IF current_subsection # None
              THEN structure' =
                     [structure EXCEPT
                        !.sections[current_subsection[1]]
                         .subsections[current_subsection[2]].items =
                            Append(@, [type |-> "lettered_subsection",
                                       letter |-> m.group[1],
                                       content |-> <<m.group[2]>>])]
              ELSE IF in_preamble \/ current_section = None
              THEN structure' = [structure EXCEPT !.preamble = Append(@, CurrentLine)]
              ELSE LET s == current_section[1]
                       n == Len(structure.sections[s].content)
                   IN  structure' =
                         IF n > 0 /\ structure.sections[s].content[n].type = "numbered_item"
                         THEN [structure EXCEPT
                                 !.sections[s].content[n].content = Append(@, CurrentLine)]
                         ELSE [structure EXCEPT
                                 !.sections[s].content =
                                     Append(@, [type |-> "str", value |-> CurrentLine])]]_vars

\* '(a) x' once directly under the section, where it is a plain paragraph of
\* the section's content, and once under its subsection, where it is an item
C8_Witness ==
    /\ ProcessedLine
    /\ PrevLine = LetterLine
    /\ current_subsection # None
    /\ SectionAt(structure, current_section).content
          = <<[type |-> "str", value |-> LetterLine]>>
    /\ SubsectionAt(structure, current_subsection).items
          = <<[type |-> "lettered_subsection", letter |-> <<"a">>,
               content |-> << <<"x">> >>]>>

\* the concatenation of a list of lists
RECURSIVE ConcatAll(_)
ConcatAll(qs) == IF qs = <<>> THEN <<>> ELSE Head(qs) \o ConcatAll(Tail(qs))

\* the texts of the p elements at or below e, in document order
RECURSIVE PTexts(_)
PTexts(e) ==
    (IF e.tag = "p" THEN <<e.text>> ELSE <<>>)
    \o ConcatAll([i \in 1..Len(e.children) |-> PTexts(e.children[i])])

\* how many entries of q equal x
Count(q, x) == Cardinality({i \in 1..Len(q) : q[i] = x})

\* the act element of the tree build_xml returned
ActElem == xml_root.children[1]

\* the children of e with the given tag
ChildrenTagged(e, tag) == SelectSeq(e.children, LAMBDA c : c.tag = tag)

\* the lines of the loop, each stripped
StrippedLines == [i \in 1..Len(lines) |-> Strip(lines[i])]

\* position of the first SectionHeader line, Len(lines) + 1 when there is none
FirstSectionLine ==
    LET hits == {i \in 1..Len(lines) :
                    StrippedLines[i] # <<>> /\ Class(StrippedLines[i]) = "SectionHeader"}
    IN  IF hits = {} THEN Len(lines) + 1
        ELSE CHOOSE i \in hits : \A j \in hits : i <= j

IsPlainLine(l) == l # <<>> /\ Class(l) = "PlainText"

\* the plain lines that precede the first SectionHeader, in input order
PlainBeforeFirstSection ==
    SelectSeq(SubSeq(StrippedLines, 1, FirstSectionLine - 1), IsPlainLine)

\* a line whose storing can put the text t into the tree: the line itself, or
\* an item header whose inline remainder is t
CanStore(l, t) ==
    \/ l = t
    \/ lettered_subsec_pattern(l).ok /\ lettered_subsec_pattern(l).group[2] = t
    \/ numbered_item_pattern(l).ok /\ Strip(numbered_item_pattern(l).group[2]) = t

(***************************************************************************)
(* C9.  Every plain line that precedes the first SectionHeader is stored   *)
(* in the preamble, in input order; the act has one preamble element whose *)
(* children are one p per preamble line, in order, holding that line; and  *)
(* no such line is rendered inside body: body holds no more p elements     *)
(* with that text than there are lines from the first SectionHeader on     *)
(* that can store it.                                                      *)
(***************************************************************************)
C9_PreambleLinesRendered ==
    pc = "done" =>
        LET plain == PlainBeforeFirstSection
            preambles == ChildrenTagged(ActElem, "preamble")
            bodies == ChildrenTagged(ActElem, "body")
        IN  /\ SelectSeq(structure.preamble, IsPlainLine) = plain
            /\ plain # <<>> =>
                  /\ Len(preambles) = 1
                  /\ Len(preambles[1].children) = Len(structure.preamble)
                  /\ \A i \in 1..Len(structure.preamble) :
                        preambles[1].children[i] =
                            [tag |-> "p", attrib |-> <<>>,
                             text |-> Str(structure.preamble[i]), children |-> <<>>]
            /\ Len(bodies) = 1
            /\ \A k \in 1..Len(plain) :
                  Count(PTexts(bodies[1]), Str(plain[k])) <=
                      Cardinality({j \in FirstSectionLine..Len(lines) :
                                      /\ StrippedLines[j] # <<>>
                                      /\ CanStore(StrippedLines[j], plain[k])})

\* the plain lines w and z, then a section with the plain line z: the preamble
\* element holds the p elements w, z and the body only the p of the later z
C9_Witness ==
    /\ pc = "done"
    /\ PlainBeforeFirstSection = <<OtherPlainLine, Strip(PlainTextLine)>>
    /\ Len(structure.sections) = 1
    /\ Len(ChildrenTagged(ActElem, "preamble")) = 1
    /\ PTexts(ChildrenTagged(ActElem, "preamble")[1]) = <<"w", "z">>
    /\ PTexts(ChildrenTagged(ActElem, "body")[1]) = <<"z">>

\* b starts with a
IsPrefix(a, b) == Len(a) <= Len(b) /\ SubSeq(b, 1, Len(a)) = a

\* item j is item i with zero or more lines appended
ItemExtends(i, j) ==
    /\ i.type = j.type
    /\ i.type = "numbered_item" => i.number = j.number
    /\ i.type = "lettered_subsection" => i.letter = j.letter
    /\ IsPrefix(i.content, j.content)

\* content entry d is content entry c, extended if it is an item
EntryExtends(c, d) ==
    /\ c.type = d.type
    /\ IF c.type = "str" THEN c.value = d.value ELSE ItemExtends(c, d)

SubsectionExtends(u, v) ==
    /\ u.number = v.number
    /\ u.heading = v.heading
    /\ IsPrefix(u.content, v.content)
    /\ Len(u.items) <= Len(v.items)
    /\ \A k \in 1..Len(u.items) : ItemExtends(u.items[k], v.items[k])

SectionExtends(a, b) ==
    /\ a.number = b.number
    /\ a.heading = b.heading
    /\ Len(a.content) <= Len(b.content)
    /\ \A k \in 1..Len(a.content) : EntryExtends(a.content[k], b.content[k])
    /\ Len(a.subsections) <= Len(b.subsections)
    /\ \A u \in 1..Len(a.subsections) :
          SubsectionExtends(a.subsections[u], b.subsections[u])

\* every list of the new tree starts with the same list of the old tree
TreeExtends(old, new) ==
    /\ IsPrefix(old.preamble, new.preamble)
    /\ Len(old.sections) <= Len(new.sections)
    /\ \A s \in 1..Len(old.sections) : SectionExtends(old.sections[s], new.sections[s])

(***************************************************************************)
(* C10.  The builder only appends: in every step every list of the tree    *)
(* (the sections, a section's subsections and content, a subsection's      *)
(* items and content, an item's lines, the preamble) keeps its elements at *)
(* their positions and gets new ones at the end only, so each list is in   *)
(* the order of the input lines that created its elements.                 *)
(***************************************************************************)
C10_AppendOnly == [][TreeExtends(structure, structure')]_vars

\* '(1) y' then '(2)' under a section: its content holds item 1, then item 2
C10_Witness ==
    /\ ProcessedLine
    /\ PrevLine = BareNumLine
    /\ idx > 2
    /\ Strip(lines[idx - 2]) = NumLine
    /\ current_section # None
    /\ current_subsection = None
    /\ Len(SectionAt(structure, current_section).content) >= 2
    /\ LET content == SectionAt(structure, current_section).content
       IN  /\ content[Len(content) - 1].type = "numbered_item"
           /\ content[Len(content) - 1].number = <<"1">>
           /\ content[Len(content)].type = "numbered_item"
           /\ content[Len(content)].number = <<"2">>

\* the class of line j of the loop, "Blank" for a line that is skipped
LineClass(j) == IF StrippedLines[j] = <<>> THEN "Blank" ELSE Class(StrippedLines[j])

\* the positions before line j that hold a line of class c
LinesBefore(j, c) == {i \in 1..(j - 1) : LineClass(i) = c}

\* the position of the last SectionHeader before line j, 0 when there is none
SectionLineBefore(j) ==
    LET hits == LinesBefore(j, "SectionHeader")
    IN  IF hits = {} THEN 0 ELSE CHOOSE i \in hits : \A k \in hits : k <= i

\* the section that is open at line j: its index in the sections, 0 for none
OpenSection(j) == Cardinality(LinesBefore(j, "SectionHeader"))

\* the subsection that is open at line j: its index in the subsections of the
\* open section, 0 for none
OpenSubsection(j) ==
    IF SectionLineBefore(j) = 0 THEN 0
    ELSE Cardinality({i \in LinesBefore(j, "SubsectionHeader") : i > SectionLineBefore(j)})

\* the lines processed so far that made a Subsection
SubsectionLines == {j \in LinesBefore(idx, "SubsectionHeader") : OpenSection(j) > 0}

\* the lines processed so far that made an Item
ItemLines ==
    {j \in LinesBefore(idx, "LetteredItemHeader") : OpenSubsection(j) > 0}
    \cup {j \in LinesBefore(idx, "NumberedItemHeader") : OpenSection(j) > 0}

(***************************************************************************)
(* C11.  In every builder state every Subsection is in exactly one         *)
(* Section's subsections and every Item in exactly one container, either   *)
(* one Subsection's items or one Section's content: each list of the tree  *)
(* holds as many subsections or items as processed header lines made for   *)
(* it (the subsection headers read while its section was open, the item    *)
(* headers read while its subsection, or its section and no subsection,    *)
(* was open), so none is held twice.                                       *)
(***************************************************************************)
C11_OneContainerEach ==
    /\ Len(structure.sections) = OpenSection(idx)
    /\ \A s \in 1..Len(structure.sections) :
          LET sec == structure.sections[s]
          IN  /\ Len(sec.subsections) =
                    Cardinality({j \in SubsectionLines : OpenSection(j) = s})
              /\ Len(SelectSeq(sec.content, IsNumberedEntry)) =
                    Cardinality({j \in ItemLines :
                                    OpenSection(j) = s /\ OpenSubsection(j) = 0})
              /\ \A u \in 1..Len(sec.subsections) :
                    Len(sec.subsections[u].items) =
                        Cardinality({j \in ItemLines :
                                        OpenSection(j) = s /\ OpenSubsection(j) = u})

\* '(1) y' under the section and '(1) y' again under its subsection: each
\* made one item, the first held by the section's content only and the
\* second by the subsection's items only
C11_Witness ==
    /\ ProcessedLine
    /\ PrevLine = NumLine
    /\ Len(structure.sections) = 1
    /\ Len(structure.sections[1].subsections) = 1
    /\ structure.sections[1].content = <<NewNumberedItem(numbered_item_pattern(NumLine))>>
    /\ structure.sections[1].subsections[1].items =
          <<NewNumberedItem(numbered_item_pattern(NumLine))>>

\* the value of attribute name of element e, "" when it is not set
AttrOf(e, name) ==
    LET hits == SelectSeq(e.attrib, LAMBDA a : a[1] = name)
    IN  IF hits = <<>> THEN "" ELSE hits[1][2]

\* the body element of the tree build_xml returned
BodyOfAct == ChildrenTagged(ActElem, "body")[1]

IsSectionLine(l) == l # <<>> /\ Class(l) = "SectionHeader"

\* the numbers of the lines that match the Section pattern, in input order
SectionNumbers ==
    LET hits == SelectSeq(StrippedLines, IsSectionLine)
    IN  [i \in 1..Len(hits) |-> section_pattern(hits[i]).group[2]]

Distinct(q) == \A i, j \in 1..Len(q) : i # j => q[i] # q[j]

(***************************************************************************)
(* C12.  When the N lines of the input that match the Section pattern have *)
(* distinct numbers, the children of the serialized body are exactly N     *)
(* section elements, in input order, and the eId of the i-th is sec_       *)
(* followed by the number of the i-th such line.                           *)
(***************************************************************************)
C12_SectionElements ==
    (pc = "done" /\ Distinct(SectionNumbers)) =>
        /\ Len(BodyOfAct.children) = Len(SectionNumbers)
        /\ \A i \in 1..Len(SectionNumbers) :
              /\ BodyOfAct.children[i].tag = "section"
              /\ AttrOf(BodyOfAct.children[i], "eId") = "sec_" \o Str(SectionNumbers[i])

\* 'Section 2a.' then 'Sec. 1. T': body holds sec_2a, then sec_1
C12_Witness ==
    /\ pc = "done"
    /\ SectionNumbers = << <<"2", "a">>, <<"1">> >>
    /\ Len(BodyOfAct.children) = 2
    /\ AttrOf(BodyOfAct.children[1], "eId") = "sec_2a"
    /\ AttrOf(BodyOfAct.children[2], "eId") = "sec_1"

\* the elements with the given tag at or below e, in document order
RECURSIVE ElemsTagged(_, _)
ElemsTagged(e, tag) ==
    (IF e.tag = tag THEN <<e>> ELSE <<>>)
    \o ConcatAll([i \in 1..Len(e.children) |-> ElemsTagged(e.children[i], tag)])

\* the texts of the p children of e, in order
ChildPTexts(e) ==
    LET ps == ChildrenTagged(e, "p") IN [i \in 1..Len(ps) |-> ps[i].text]

\* the positions of the lines of class c, in input order
PositionsOf(c) ==
    SelectSeq([i \in 1..Len(lines) |-> i], LAMBDA i : LineClass(i) = c)

\* line j is handled by the plain line rules: a PlainText line, a
\* LetteredItemHeader with no subsection open, or a SubsectionHeader with no
\* section open
TreatedAsPlain(j) ==
    \/ LineClass(j) = "PlainText"
    \/ LineClass(j) = "LetteredItemHeader" /\ OpenSubsection(j) = 0
    \/ LineClass(j) = "SubsectionHeader" /\ OpenSection(j) = 0

\* the position of the first header after line j, Len(lines) + 1 when none
NextHeader(j) ==
    LET hits == {k \in (j + 1)..Len(lines) :
                    LineClass(k) # "Blank" /\ ~TreatedAsPlain(k)}
    IN  IF hits = {} THEN Len(lines) + 1 ELSE CHOOSE k \in hits : \A h \in hits : k <= h

\* the plain lines between header line j and the next header, in input order
Continuation(j) ==
    SelectSeq(SubSeq(StrippedLines, j + 1, NextHeader(j) - 1), LAMBDA l : l # <<>>)

\* the p texts claimed for the item of numbered header line j
ExpectedItemPs(j) ==
    LET m == numbered_item_pattern(StrippedLines[j])
        remainder == Strip(m.group[2])
        cont == Continuation(j)
    IN  (IF remainder # <<>> THEN <<Str(remainder)>> ELSE <<>>)
        \o [i \in 1..Len(cont) |-> Str(cont[i])]

(***************************************************************************)
(* C13.  A numbered item header followed by one or more plain lines before *)
(* the next header produces exactly one item element: the k-th numbered    *)
(* header of the input has the k-th item element of the document, whose    *)
(* num is the header's number and whose p children are, in order, the      *)
(* header's inline remainder (only if non-empty) and then one p per        *)
(* continuation line.                                                      *)
(***************************************************************************)
C13_NumberedItemWithContinuation ==
    pc = "done" =>
        LET hdrs == PositionsOf("NumberedItemHeader")
            items == ElemsTagged(BodyOfAct, "item")
        IN  \A k \in 1..Len(hdrs) :
               Continuation(hdrs[k]) # <<>> =>
                  /\ k <= Len(items)
                  /\ ChildrenTagged(items[k], "num")[1].text =
                        "(" \o Str(numbered_item_pattern(StrippedLines[hdrs[k]]).group[1])
                            \o ")"
                  /\ ChildPTexts(items[k]) = ExpectedItemPs(hdrs[k])

\* the element of section s of the tree, and of its subsection u
SectionElemAt(s) == BodyOfAct.children[s]

SubsectionElemAt(s, u) == ChildrenTagged(SectionElemAt(s), "subsection")[u]

\* every <<s, u>> such that section s has a subsection u
SubsectionPaths ==
    UNION {{<<s, u>> : u \in 1..Len(structure.sections[s].subsections)} :
              s \in 1..Len(structure.sections)}

(***************************************************************************)
(* C14.  Every LetteredItem of a subsection is rendered as a subsection    *)
(* element that is a direct child of the parent subsection's element (the  *)
(* k-th such child for the k-th lettered item), with eId                   *)
(* <subsectionEId>__subsec_<letter>, num '(<letter>)' and one content      *)
(* element whose children are exactly one p per accumulated line of the    *)
(* item, in order.                                                         *)
(***************************************************************************)
C14_LetteredItemRendered ==
    pc = "done" =>
        \A path \in SubsectionPaths :
            LET subsec == SubsectionAt(structure, path)
                elem == SubsectionElemAt(path[1], path[2])
                lettered == SelectSeq(subsec.items, IsLettered)
                nested == ChildrenTagged(elem, "subsection")
            IN  /\ Len(nested) = Len(lettered)
                /\ \A k \in 1..Len(lettered) :
                      /\ AttrOf(nested[k], "eId") =
                            AttrOf(elem, "eId") \o "__subsec_" \o Str(lettered[k].letter)
                      /\ ChildrenTagged(nested[k], "num")[1].text =
                            "(" \o Str(lettered[k].letter) \o ")"
                      /\ Len(ChildrenTagged(nested[k], "content")) = 1
                      /\ ChildrenTagged(nested[k], "content")[1].children =
                            Ps(lettered[k].content)

\* the blockList elements of a parent element: those in its own content elements
BlockListsOf(elem) ==
    LET contents == ChildrenTagged(elem, "content")
    IN  ConcatAll([i \in 1..Len(contents) |-> ChildrenTagged(contents[i], "blockList")])

\* the parent element elem, whose numbered items are numbered, has no blockList
\* when it has no numbered item, and else one blockList, named after the
\* parent, whose children are the items, each named after the list
OneBlockList(elem, numbered) ==
    LET lists == BlockListsOf(elem)
        list_id == AttrOf(elem, "eId") \o "__list_1"
    IN  /\ Len(lists) = IF numbered = <<>> THEN 0 ELSE 1
        /\ numbered # <<>> =>
              /\ AttrOf(lists[1], "eId") = list_id
              /\ Len(lists[1].children) = Len(numbered)
              /\ \A i \in 1..Len(numbered) :
                    /\ lists[1].children[i].tag = "item"
                    /\ AttrOf(lists[1].children[i], "eId") =
                          list_id \o "__item_" \o Str(numbered[i].number)

\* the sections and subsections that hold a numbered item
ParentsWithItems ==
    {<<s>> : s \in {t \in 1..Len(structure.sections) :
                       SelectSeq(structure.sections[t].content, IsNumberedEntry) # <<>>}}
    \cup {path \in SubsectionPaths :
             SelectSeq(SubsectionAt(structure, path).items, IsNumberedEntry) # <<>>}

(***************************************************************************)
(* C15.  Each parent, a section or a subsection, is rendered with at most  *)
(* one blockList: none when it has no numbered item, else one whose eId is *)
(* <parentEId>__list_1 and whose children are the items of all numbered    *)
(* items of the parent, in order, the eId of each being                    *)
(* <listEId>__item_<number>; the document has no other blockList; and the  *)
(* eId of a subsection is <sectionEId>__subsec_<subsectionNumber>.         *)
(***************************************************************************)
C15_OneBlockListPerParent ==
    pc = "done" =>
        /\ \A s \in 1..Len(structure.sections) :
              OneBlockList(SectionElemAt(s),
                           SelectSeq(structure.sections[s].content, IsNumberedEntry))
        /\ \A path \in SubsectionPaths :
              /\ OneBlockList(SubsectionElemAt(path[1], path[2]),
                              SelectSeq(SubsectionAt(structure, path).items,
                                        IsNumberedEntry))
              /\ AttrOf(SubsectionElemAt(path[1], path[2]), "eId") =
                    AttrOf(SectionElemAt(path[1]), "eId") \o "__subsec_"
                        \o Str(SubsectionAt(structure, path).number)
        /\ Len(ElemsTagged(BodyOfAct, "blockList")) = Cardinality(ParentsWithItems)

\* '(1) y' and '(2)' under subsection 2 of section 1: one blockList, two items
C15_Witness ==
    /\ pc = "done"
    /\ SubsectionPaths = {<<1, 1>>}
    /\ AttrOf(SubsectionElemAt(1, 1), "eId") = "sec_1__subsec_2"
    /\ Len(BlockListsOf(SubsectionElemAt(1, 1))) = 1
    /\ LET list == BlockListsOf(SubsectionElemAt(1, 1))[1]
       IN  /\ AttrOf(list, "eId") = "sec_1__subsec_2__list_1"
           /\ Len(list.children) = 2
           /\ AttrOf(list.children[1], "eId") = "sec_1__subsec_2__list_1__item_1"
           /\ AttrOf(list.children[2], "eId") = "sec_1__subsec_2__list_1__item_2"

\* the texts of the plain lines of a section's content, in order
PlainTexts(content) ==
    LET strs == SelectSeq(content, IsStrEntry)
    IN  [i \in 1..Len(strs) |-> Str(strs[i].value)]

(***************************************************************************)
(* C16.  A section is rendered with a content element exactly when its     *)
(* content sequence is non-empty.  If the sequence holds a NumberedItem,   *)
(* the children of the content element are one blockList, whose children   *)
(* are one item per numbered item (num '(<number>)', one p per line), and, *)
(* outside the blockList, one p per plain line; if it holds none, the      *)
(* children are exactly one p per content line.                            *)
(***************************************************************************)
C16_SectionContentRendered ==
    pc = "done" =>
        \A s \in 1..Len(structure.sections) :
            LET content == structure.sections[s].content
                numbered == SelectSeq(content, IsNumberedEntry)
                contents == ChildrenTagged(SectionElemAt(s), "content")
            IN  /\ Len(contents) = IF content = <<>> THEN 0 ELSE 1
                /\ content # <<>> =>
                      /\ ChildPTexts(contents[1]) = PlainTexts(content)
                      /\ IF numbered = <<>>
                         THEN Len(contents[1].children) = Len(content)
                         ELSE /\ Len(contents[1].children) = 1 + Len(PlainTexts(content))
                              /\ Len(ChildrenTagged(contents[1], "blockList")) = 1
                              /\ LET list == ChildrenTagged(contents[1], "blockList")[1]
                                 IN  /\ Len(list.children) = Len(numbered)
                                     /\ \A i \in 1..Len(numbered) :
                                           /\ list.children[i].tag = "item"
                                           /\ ChildrenTagged(list.children[i], "num")[1].text
                                                 = "(" \o Str(numbered[i].number) \o ")"
                                           /\ ChildrenTagged(list.children[i], "p")
                                                 = Ps(numbered[i].content)

\* the plain line w, then '(1) y', under a section: its content element holds
\* the blockList of the item and after it the p of w
C16_Witness ==
    /\ pc = "done"
    /\ Len(structure.sections) = 1
    /\ Len(structure.sections[1].content) = 2
    /\ structure.sections[1].content[1] = PlainLine(OtherPlainLine)
    /\ structure.sections[1].content[2].type = "numbered_item"
    /\ LET contents == ChildrenTagged(SectionElemAt(1), "content")
       IN  /\ Len(contents) = 1
           /\ Len(contents[1].children) = 2
           /\ contents[1].children[1].tag = "blockList"
           /\ contents[1].children[2] = P(OtherPlainLine)

\* the total length of the lists of q
RECURSIVE SumLen(_)
SumLen(q) == IF q = <<>> THEN 0 ELSE Len(Head(q)) + SumLen(Tail(q))

(***************************************************************************)
(* C17.  The free-form content lines of a Subsection are rendered as p     *)
(* elements inside a content element that is a direct child of that        *)
(* subsection's own element, the one that holds its blockList if it has    *)
(* one: a subsection with content lines has exactly one content child,     *)
(* whose p children are its content lines in order; and none of them is    *)
(* placed inside a nested lettered item's subsection, which hold as many p *)
(* elements as the lettered items have lines.                              *)
(***************************************************************************)
C17_SubsectionContentPlace ==
    pc = "done" =>
        \A path \in SubsectionPaths :
            LET subsec == SubsectionAt(structure, path)
                elem == SubsectionElemAt(path[1], path[2])
                contents == ChildrenTagged(elem, "content")
                lettered == SelectSeq(subsec.items, IsLettered)
                nested == ChildrenTagged(elem, "subsection")
            IN  /\ subsec.content # <<>> =>
                      /\ Len(contents) = 1
                      /\ ChildPTexts(contents[1]) =
                            [i \in 1..Len(subsec.content) |-> Str(subsec.content[i])]
                      /\ Len(BlockListsOf(elem)) =
                            IF SelectSeq(subsec.items, IsNumberedEntry) = <<>> THEN 0 ELSE 1
                /\ SumLen([k \in 1..Len(nested) |-> PTexts(nested[k])]) =
                      SumLen([k \in 1..Len(lettered) |-> lettered[k].content])

\* the tags of the children of e, in order
ChildTags(e) == [i \in 1..Len(e.children) |-> e.children[i].tag]

(***************************************************************************)
(* C18.  The children of the act element are, in this order: meta, always; *)
(* preface, exactly when a non-empty title was supplied; preamble, exactly *)
(* when the Document has at least one preamble line; body, always, also    *)
(* when there are no sections.                                             *)
(***************************************************************************)
C18_ActChildrenOrder ==
    pc = "done" =>
        ChildTags(ActElem) =
            <<"meta">>
            \o (IF title # "" THEN <<"preface">> ELSE <<>>)
            \o (IF structure.preamble # <<>> THEN <<"preamble">> ELSE <<>>)
            \o <<"body">>

\* no title, a preamble line and no section: meta, preamble and an empty body
C18_Witness ==
    /\ pc = "done"
    /\ title = ""
    /\ structure.preamble # <<>>
    /\ structure.sections = <<>>
    /\ ChildTags(ActElem) = <<"meta", "preamble", "body">>
    /\ ActElem.children[3].children = <<>>

\* the text is empty or whitespace only
EmptyInput == Strip(text) = <<>>

\* no line of the text is a header: each is blank or PlainText
NoHeaderInput ==
    \A i \in 1..Len(Split(Strip(text))) :
        LET l == Strip(Split(Strip(text))[i])
        IN  l = <<>> \/ Class(l) = "PlainText"

(***************************************************************************)
(* C19.  Input without a recognizable header, empty and whitespace-only    *)
(* input included, never produces an error: convert does not raise on it,  *)
(* and the document it returns has an act with a body without children.    *)
(* For empty or whitespace-only input the builder state stays empty and    *)
(* the document has no preamble element.                                   *)
(***************************************************************************)
C19_DegenerateInput ==
    /\ NoHeaderInput => pc # "raised"
    /\ (NoHeaderInput /\ pc = "done") =>
          /\ Len(ChildrenTagged(ActElem, "body")) = 1
          /\ BodyOfAct.children = <<>>
    /\ EmptyInput => structure = [preamble |-> <<>>, sections |-> <<>>]
    /\ (EmptyInput /\ pc = "done") => ChildrenTagged(ActElem, "preamble") = <<>>

\* the locals of parse_text after the loop body (lines 160-233) ran on the
\* lines of q, in order; q holds lines already stripped and not empty, which
\* is how they come out of lines 156-158
RECURSIVE LoopOver(_)
LoopOver(q) ==
    IF q = <<>> THEN BuilderStart
    ELSE LoopBody(LoopOver(SubSeq(q, 1, Len(q) - 1)), q[Len(q)])

\* the non-blank lines among the lines the loop has been through, stripped
NonBlankSoFar ==
    SelectSeq(SubSeq(StrippedLines, 1, idx - 1), LAMBDA l : l # <<>>)

(***************************************************************************)
(* C20.  Blank lines never change builder state: in every state the tree,  *)
(* the current section, the current subsection and the preamble flag are   *)
(* what the loop body makes of the non-blank lines read so far alone, so   *)
(* two inputs with the same non-blank lines yield the same Document tree,  *)
(* wherever blank lines are inserted or removed; a blank line between an   *)
(* item header and its continuation lines does not end the continuation.   *)
(***************************************************************************)
C20_BlankLinesIgnored ==
    LET b == LoopOver(NonBlankSoFar)
    IN  /\ structure = b.structure
        /\ current_section = b.current_section
        /\ current_subsection = b.current_subsection
        /\ in_preamble = b.in_preamble

\* '(1) y', a blank line, the plain line z, under a section: z is a line
\* of the item
C20_Witness ==
    /\ pc = "build_xml"
    /\ Len(lines) = 4
    /\ StrippedLines[2] = NumLine
    /\ StrippedLines[3] = <<>>
    /\ StrippedLines[4] = Strip(PlainTextLine)
    /\ Len(structure.sections) = 1
    /\ Len(structure.sections[1].content) = 1
    /\ structure.sections[1].content[1].content = <<<<"y">>, Strip(PlainTextLine)>>

(***************************************************************************)
(* The classifier on its own.  A line is put together from at most         *)
(* MaxFragments fragments: header starts, numbers, brackets and filler.    *)
(***************************************************************************)
Fragments ==
    { <<"S", "e", "c", ".", " ">>, <<"S", "e", "c", "t", "i", "o", "n", " ">>,
      <<"S", "e", "c", ".">>, <<"§">>, <<"1", ".">>, <<"2", "a", ".">>,
      <<"(", "a", ")">>, <<"(", "1", ")">>, <<"(">>, <<")">>,
      <<"a">>, <<"1">>, <<" ">>, <<"x">>, <<".">> }

\* the lines the loop can hand to the patterns: stripped and not empty
ClassifierLines ==
    {Strip(ConcatAll(fs)) : fs \in SeqsUpTo(Fragments, MaxFragments)} \ {<<>>}

\* the conversion is not running
ConverterIdle ==
    /\ pc = "idle"
    /\ text = <<>>
    /\ title = ""
    /\ act_number = ""
    /\ lines = <<>>
    /\ idx = 1
    /\ structure = [preamble |-> <<>>, sections |-> <<>>]
    /\ current_section = None
    /\ current_subsection = None
    /\ in_preamble = TRUE
    /\ xml_root = None
    /\ today = <<>>
    /\ converter = [jurisdiction |-> "us", state |-> "vt", date_enacted |-> today]

InitClassify ==
    /\ ConverterIdle
    /\ CallsIdle
    /\ ScraperIdle
    /\ GeneratorIdle
    /\ MainIdle
    /\ PipelineIdle
    /\ stripped \in ClassifierLines
    /\ matches = <<>>

\* lines 161, 176, 189, 200: the four re.match calls on the line
ClassifyLine ==
    /\ pc = "idle"
    /\ stripped # <<>>
    /\ matches = <<>>
    /\ matches' = [section |-> section_pattern(stripped).ok,
                   subsection |-> subsection_pattern(stripped).ok,
                   lettered |-> lettered_subsec_pattern(stripped).ok,
                   numbered |-> numbered_item_pattern(stripped).ok]
    /\ UNCHANGED <<outsideClassifier, stripped>>

NextClassify == ClassifyLine

SpecClassify == InitClassify /\ [][NextClassify]_vars

PatternNames == {"section", "subsection", "lettered", "numbered"}

\* the name of the first pattern of the order that matched the line, "none"
\* when no pattern did.  This is the outcome of the re.match calls alone:
\* whether the loop enters the branch of a pattern depends also on
\* current_section and current_subsection (Branch).
RECURSIVE FirstMatch(_)
FirstMatch(order) ==
    IF order = <<>> THEN "none"
    ELSE IF matches[Head(order)] THEN Head(order)
    ELSE FirstMatch(Tail(order))

\* the orders in which the four patterns can be tested
TestOrders ==
    {o \in [1..4 -> PatternNames] : \A i, j \in 1..4 : i # j => o[i] # o[j]}

(***************************************************************************)
(* C21.  Classification of a trimmed non-blank line is total and local:    *)
(* the line gets exactly one of the five classes, computed from the line   *)
(* alone; at most one of the four header patterns matches it, so a chain   *)
(* that tests the patterns in any other order gives the same class.  The   *)
(* class of a line is the one named after the pattern that matches it,     *)
(* PlainText when none does.                                               *)
(***************************************************************************)
C21_ClassificationTotalExclusive ==
    matches # <<>> =>
        LET named(n) == CASE n = "section" -> "SectionHeader"
                          [] n = "subsection" -> "SubsectionHeader"
                          [] n = "lettered" -> "LetteredItemHeader"
                          [] n = "numbered" -> "NumberedItemHeader"
                          [] n = "none" -> "PlainText"
        IN  /\ Class(stripped) \in {"SectionHeader", "SubsectionHeader",
                                    "LetteredItemHeader", "NumberedItemHeader",
                                    "PlainText"}
            /\ Cardinality({n \in PatternNames : matches[n]}) <= 1
            /\ \A order \in TestOrders : named(FirstMatch(order)) = Class(stripped)

\* '(1)(a)': a numbered item header whose text looks like a lettered one
C21_Witness ==
    /\ matches # <<>>
    /\ stripped = <<"(", "1", ")", "(", "a", ")">>
    /\ matches.numbered
    /\ ~matches.lettered
    /\ Class(stripped) = "NumberedItemHeader"

(***************************************************************************)
(* Several calls.  Two calls of convert run interleaved, line by line, on  *)
(* one converter object or on two; build_xml can be called again on the    *)
(* structure parse_text returned.  Every call has its own locals.          *)
(***************************************************************************)
CallIds == {1, 2}

\* "2024-01-01": a date_enacted handed to the constructor
EnactedDate == <<"2", "0", "2", "4", "-", "0", "1", "-", "0", "1">>

\* "2026-10-30" and the day after: what datetime.now().strftime gives
Day0 == <<"2", "0", "2", "6", "-", "1", "0", "-", "3", "0">>

Day1 == <<"2", "0", "2", "6", "-", "1", "0", "-", "3", "1">>

\* lines 29-43: __init__; an empty date_enacted becomes the current date
NewConverter(jurisdiction, state, date_enacted, now) ==
    [jurisdiction |-> jurisdiction, state |-> state,
     date_enacted |-> IF date_enacted # <<>> THEN date_enacted ELSE now]

\* the texts of the interleaved calls
CallTexts == {Join(ls) : ls \in SeqsUpTo({SecLine, SubsecLine}, MaxCallLines)}

\* the texts of the calls whose meta blocks are compared
MetaTexts == {<<>>, SecLine, OtherPlainLine}

\* a call of convert(text, title, act_number) on converter object self, entered
NewCall(self, txt, ttl, act_no) ==
    [pc |-> "parse_text", self |-> self, text |-> txt, title |-> ttl,
     act_number |-> act_no, lines |-> <<>>, idx |-> 1, b |-> BuilderStart,
     builds |-> <<>>]

\* two calls: the first on converter 1 with the default arguments, the second
\* on converter 1 or 2 with one of the given act numbers; converter 2 is
\* one of the given objects
InitCallsWith(texts, second_converters, act_numbers) ==
    /\ ConverterIdle
    /\ ClassifierIdle
    /\ ScraperIdle
    /\ GeneratorIdle
    /\ MainIdle
    /\ PipelineIdle
    /\ clock = Day0
    /\ \E conv2 \in second_converters :
          converters = <<NewConverter("us", "vt", EnactedDate, clock), conv2>>
    /\ \E t1, t2 \in texts, self2 \in {1, 2}, act2 \in act_numbers :
          calls = <<NewCall(1, t1, "Statute", ""), NewCall(self2, t2, "Statute", act2)>>

InitCalls ==
    InitCallsWith(CallTexts, {NewConverter("us", "vt", EnactedDate, Day0)}, {""})

InitMeta ==
    InitCallsWith(MetaTexts,
                  {NewConverter("us", "vt", EnactedDate, Day0),
                   NewConverter("us", "", <<>>, Day0)},
                  {"", "7"})

\* a variant in which the tree and the cursors are shared: entering parse_text
\* resets them for every call
CallParseStart_SharedLocals(c) ==
    /\ calls[c].pc = "parse_text"
    /\ calls' = [d \in DOMAIN calls |->
                   IF d = c
                   THEN [calls[d] EXCEPT !.lines = Split(Strip(calls[c].text)),
                                         !.idx = 1,
                                         !.b = BuilderStart,
                                         !.pc = "loop"]
                   ELSE [calls[d] EXCEPT !.b = BuilderStart]]
    /\ UNCHANGED <<outsideCalls, converters, clock>>

\* lines 139-147 in call c
CallParseStart(c) ==
    /\ calls[c].pc = "parse_text"
    /\ calls' = [calls EXCEPT ![c].lines = Split(Strip(calls[c].text)),
                              ![c].idx = 1,
                              ![c].b = BuilderStart,
                              ![c].pc = "loop"]
    /\ UNCHANGED <<outsideCalls, converters, clock>>

\* lines 155-233 in call c: one iteration of the loop
CallLoopStep(c) ==
    /\ calls[c].pc = "loop"
    /\ calls[c].idx <= Len(calls[c].lines)
    /\ LET l == Strip(calls[c].lines[calls[c].idx])
       IN  calls' = [calls EXCEPT ![c].b = IF l = <<>> THEN @ ELSE LoopBody(@, l),
                                  ![c].idx = @ + 1]
    /\ UNCHANGED <<outsideCalls, converters, clock>>

\* line 235 in call c
CallParseReturn(c) ==
    /\ calls[c].pc = "loop"
    /\ calls[c].idx > Len(calls[c].lines)
    /\ calls' = [calls EXCEPT ![c].pc = "build_xml"]
    /\ UNCHANGED <<outsideCalls, converters, clock>>

\* a variant that empties the preamble and the sections it has rendered
CallBuildXml_ConsumesTree(c) ==
    /\ \/ calls[c].pc = "build_xml"
       \/ calls[c].pc = "done" /\ Len(calls[c].builds) < MaxBuilds
    /\ calls' = [calls EXCEPT
                   ![c].builds =
                       Append(@, [now |-> clock,
                                  root |-> build_xml(converters[calls[c].self], clock,
                                                     calls[c].b.structure,
                                                     calls[c].title,
                                                     calls[c].act_number)]),
                   ![c].b.structure = [preamble |-> <<>>, sections |-> <<>>],
                   ![c].pc = "done"]
    /\ UNCHANGED <<outsideCalls, converters, clock>>

\* a variant that takes the act number from the first section of the text
CallBuildXml_ActNumberFromText(c) ==
    /\ \/ calls[c].pc = "build_xml"
       \/ calls[c].pc = "done" /\ Len(calls[c].builds) < MaxBuilds
    /\ calls' = [calls EXCEPT
                   ![c].builds =
                       Append(@, [now |-> clock,
                                  root |-> build_xml(converters[calls[c].self], clock,
                                                     calls[c].b.structure,
                                                     calls[c].title,
                                                     IF calls[c].b.structure.sections # <<>>
                                                     THEN Str(calls[c].b.structure
                                                                .sections[1].number)
                                                     ELSE calls[c].act_number)]),
                   ![c].pc = "done"]
    /\ UNCHANGED <<outsideCalls, converters, clock>>

\* a variant that stamps the enactment date where the processing date belongs
CallBuildXml_EnactedAsNow(c) ==
    /\ \/ calls[c].pc = "build_xml"
       \/ calls[c].pc = "done" /\ Len(calls[c].builds) < MaxBuilds
    /\ calls' = [calls EXCEPT
                   ![c].builds =
                       Append(@, [now |-> clock,
                                  root |-> build_xml(converters[calls[c].self],
                                                     converters[calls[c].self].date_enacted,
                                                     calls[c].b.structure,
                                                     calls[c].title,
                                                     calls[c].act_number)]),
                   ![c].pc = "done"]
    /\ UNCHANGED <<outsideCalls, converters, clock>>

\* lines 237-370 in call c: build_xml on the structure parse_text returned,
\* the first time from convert (line 391)
CallBuildXml(c) ==
    /\ \/ calls[c].pc = "build_xml"
       \/ calls[c].pc = "done" /\ Len(calls[c].builds) < MaxBuilds
    /\ calls' = [calls EXCEPT
                   ![c].builds =
                       Append(@, [now |-> clock,
                                  root |-> build_xml(converters[calls[c].self], clock,
                                                     calls[c].b.structure,
                                                     calls[c].title,
                                                     calls[c].act_number)]),
                   ![c].pc = "done"]
    /\ UNCHANGED <<outsideCalls, converters, clock>>

\* midnight passes
Tick ==
    /\ clock = Day0
    /\ clock' = Day1
    /\ UNCHANGED <<outsideCalls, calls, converters>>

NextCalls ==
    \E c \in CallIds :
        \/ CallParseStart(c)
        \/ CallLoopStep(c)
        \/ CallParseReturn(c)
        \/ CallBuildXml(c)

SpecCalls == InitCalls /\ [][NextCalls]_vars

NextMeta == NextCalls \/ Tick

SpecMeta == InitMeta /\ [][NextMeta]_vars

\* the meta element of a tree build_xml returned
MetaOf(root) == ChildrenTagged(root.children[1], "meta")[1]

\* the only child of e with the given tag
TheChild(e, tag) == ChildrenTagged(e, tag)[1]

\* every <<c, k>> such that call c has a k-th returned tree
Builds == UNION {{<<c, k>> : k \in 1..Len(calls[c].builds)} : c \in DOMAIN calls}

BuildAt(ck) == calls[ck[1]].builds[ck[2]]

(***************************************************************************)
(* C22.  For a fixed configuration (the fields of the converter, title and *)
(* act number), two calls with the same enactment date and the same        *)
(* processing date produce the same meta block, whatever their texts and   *)
(* whatever calls ran before or between them.                              *)
(***************************************************************************)
C22_MetaDeterminedByConfiguration ==
    \A x, y \in Builds :
        (/\ converters[calls[x[1]].self] = converters[calls[y[1]].self]
         /\ calls[x[1]].title = calls[y[1]].title
         /\ calls[x[1]].act_number = calls[y[1]].act_number
         /\ BuildAt(x).now = BuildAt(y).now)
        => MetaOf(BuildAt(x).root) = MetaOf(BuildAt(y).root)

\* the empty text and 'Sec. 1. T', converted on two converter objects with
\* the same fields on the same day: the same meta block
C22_Witness ==
    /\ calls # <<>>
    /\ calls[1].text = <<>>
    /\ calls[2].text = SecLine
    /\ calls[2].self = 2
    /\ converters[1] = converters[2]
    /\ calls[1].act_number = calls[2].act_number
    /\ Len(calls[1].builds) = 1
    /\ Len(calls[2].builds) = 1
    /\ calls[1].builds[1].now = calls[2].builds[1].now
    /\ MetaOf(calls[1].builds[1].root) = MetaOf(calls[2].builds[1].root)

\* the FRBRdate and FRBRauthor of block blk of a meta element
FRBRdateOf(meta, blk) == TheChild(TheChild(TheChild(meta, "identification"), blk), "FRBRdate")

FRBRauthorOf(meta, blk) ==
    TheChild(TheChild(TheChild(meta, "identification"), blk), "FRBRauthor")

(***************************************************************************)
(* C23.  In the FRBR block the Work date (role Generation), the Expression *)
(* date (role Expression) and the publication date are the enactment date  *)
(* of the converter; only the Manifestation date (role XMLConversion) is   *)
(* the processing date; the authors are #legislature for Work and          *)
(* Expression and #converter for Manifestation.                            *)
(***************************************************************************)
C23_FRBRDatesAndAuthors ==
    \A x \in Builds :
        LET meta == MetaOf(BuildAt(x).root)
            enacted == Str(converters[calls[x[1]].self].date_enacted)
        IN  /\ FRBRdateOf(meta, "FRBRWork").attrib =
                  << <<"date", enacted>>, <<"name", "Generation">> >>
            /\ FRBRdateOf(meta, "FRBRExpression").attrib =
                  << <<"date", enacted>>, <<"name", "Expression">> >>
            /\ AttrOf(TheChild(meta, "publication"), "date") = enacted
            /\ FRBRdateOf(meta, "FRBRManifestation").attrib =
                  << <<"date", Str(BuildAt(x).now)>>, <<"name", "XMLConversion">> >>
            /\ AttrOf(FRBRauthorOf(meta, "FRBRWork"), "href") = "#legislature"
            /\ AttrOf(FRBRauthorOf(meta, "FRBRExpression"), "href") = "#legislature"
            /\ AttrOf(FRBRauthorOf(meta, "FRBRManifestation"), "href") = "#converter"

\* a converter built without a date on 2026-10-30, its call serialized the
\* day after: Work is dated 2026-10-30, Manifestation 2026-10-31
C23_Witness ==
    /\ calls # <<>>
    /\ calls[2].self = 2
    /\ converters[2].date_enacted = Day0
    /\ Len(calls[2].builds) = 1
    /\ calls[2].builds[1].now = Day1
    /\ AttrOf(FRBRdateOf(MetaOf(calls[2].builds[1].root), "FRBRWork"), "date")
          = "2026-10-30"
    /\ AttrOf(FRBRdateOf(MetaOf(calls[2].builds[1].root), "FRBRManifestation"), "date")
          = "2026-10-31"

\* the non-blank lines among the first n of ls, stripped
NonBlankAmong(ls, n) ==
    SelectSeq([i \in 1..n |-> Strip(ls[i])], LAMBDA l : l # <<>>)

\* the locals of a call of parse_text(txt) that runs alone, at its return
Alone(txt) == LoopOver(NonBlankAmong(Split(Strip(txt)), Len(Split(Strip(txt)))))

(***************************************************************************)
(* C24.  Conversions share no mutable state: however the calls are         *)
(* interleaved, on one converter or on two, the tree, the mode and the     *)
(* current section and subsection of each call are at every moment what    *)
(* the call would have made of the lines it has read had it run alone, and *)
(* the document it returns is the one of running it alone.                 *)
(***************************************************************************)
C24_CallsIndependent ==
    \A c \in DOMAIN calls :
        /\ calls[c].pc \in {"loop", "build_xml", "done"} =>
              calls[c].b = LoopOver(NonBlankAmong(calls[c].lines, calls[c].idx - 1))
        /\ \A k \in 1..Len(calls[c].builds) :
              calls[c].builds[k].root =
                  build_xml(converters[calls[c].self], calls[c].builds[k].now,
                            Alone(calls[c].text).structure,
                            calls[c].title, calls[c].act_number)

\* both calls are inside their loops on one converter object: the first has
\* read 'Sec. 1. T' and has a section, the second has read '§ 2. P' and has
\* a preamble line
C24_Witness ==
    /\ calls # <<>>
    /\ calls[2].self = 1
    /\ calls[1].pc = "loop" /\ calls[1].idx = 2 /\ Len(calls[1].lines) = 2
    /\ calls[2].pc = "loop" /\ calls[2].idx = 2 /\ Len(calls[2].lines) = 2
    /\ calls[1].b.current_section = <<1>>
    /\ calls[1].b.structure.preamble = <<>>
    /\ calls[2].b.current_section = None
    /\ calls[2].b.structure.preamble = <<SubsecLine>>

(***************************************************************************)
(* C25.  Serialization leaves the Document tree unchanged: once parse_text *)
(* has returned the structure, no step changes it or the cursors, and the  *)
(* trees build_xml returns for it have the same body, and are the same     *)
(* tree when the processing date is the same.                              *)
(***************************************************************************)
C25_SerializationReadsOnly ==
    [][\A c \in DOMAIN calls :
          calls[c].pc \in {"build_xml", "done"} =>
              /\ calls'[c].b = calls[c].b
              /\ \A i, j \in 1..Len(calls'[c].builds) :
                    LET x == calls'[c].builds[i]
                        y == calls'[c].builds[j]
                    IN  /\ TheChild(x.root.children[1], "body")
                              = TheChild(y.root.children[1], "body")
                        /\ x.now = y.now => x.root = y.root]_vars

\* 'Sec. 1. T' and '§ 2. P' serialized twice: the tree still holds the section
\* and its subsection
C25_Witness ==
    /\ calls # <<>>
    /\ Len(calls[1].builds) = 2
    /\ calls[1].builds[1].root = calls[1].builds[2].root
    /\ Len(calls[1].b.structure.sections) = 1
    /\ Len(calls[1].b.structure.sections[1].subsections) = 1
    /\ Len(ChildrenTagged(TheChild(calls[1].builds[2].root.children[1], "body"),
                          "section")) = 1

(***************************************************************************)
(* The scrapers.  StatuteScraper, BillScraper and ActScraper have the same *)
(* scrape method, which calls fetch_page and download_pdf of BaseScraper.  *)
(* Whether a request succeeds, and whether the file can be written, is     *)
(* decided by the outside world at every attempt.                          *)
(***************************************************************************)
\* the values of the limit argument: None and the integers 0..MaxLimit
Limits == {None} \cup {<<n>> : n \in 0..MaxLimit}

\* the values of the keys 'type' and 'document_type'
Statute == <<"s", "t", "a", "t", "u", "t", "e">>

Bill == <<"b", "i", "l", "l">>

Act == <<"a", "c", "t">>

\* dict.get(key, default): a key of a dict holds <<>> when the dict lacks it
\* and <<v>> when it maps it to v
Get(d, key, default) == IF d[key] = <<>> THEN default ELSE d[key][1]

\* str(index) for an index >= 0
RECURSIVE DecimalStr(_)
DecimalStr(n) ==
    LET digit(d) == <<"0", "1", "2", "3", "4", "5", "6", "7", "8", "9">>[d + 1]
    IN  IF n < 10 THEN <<digit(n)>> ELSE DecimalStr(n \div 10) \o <<digit(n % 10)>>

DotPdf == <<".", "p", "d", "f">>

\* urljoin(self.base_url, href) for the i-th link of a listing, written from
\* the path of the href on: /i.pdf, or /year/i.pdf when the href holds a year
Url(i, year) ==
    <<"/">> \o (IF year # <<>> THEN year[1] \o <<"/">> ELSE <<>>)
    \o DecimalStr(i) \o DotPdf

\* part in q, for two strings
Contains(q, part) ==
    \E i \in 1..(Len(q) - Len(part) + 1) : SubSeq(q, i, i + Len(part) - 1) = part

\* the metadata dict find_pdf_links makes for a link (statute_scraper.py lines
\* 39-49, bill_scraper.py lines 40-56, act_scraper.py lines 39-55): url,
\* title, type and link_text always, the number the regular expression found
\* in the title under bill_number or act_number, the year found in the href,
\* and, for a statute whose title in lower case holds 'title', the title
\* under statute_title
Metadata(url, type, ttl, number, year) ==
    [url |-> <<url>>, title |-> <<ttl>>, type |-> <<type>>, link_text |-> <<ttl>>,
     bill_number |-> IF type = Bill THEN number ELSE <<>>,
     act_number |-> IF type = Act THEN number ELSE <<>>,
     year |-> IF type = Statute THEN <<>> ELSE year,
     statute_title |->
        IF type = Statute /\ Contains(Lower(ttl), <<"t", "i", "t", "l", "e">>)
        THEN <<ttl>> ELSE <<>>]

\* link texts of a statute listing: 'Title 1', whose safe title is
\* 'Title_1' and which is kept as statute_title, and '/', which has neither;
\* a listing may show the same text on two links
StatuteLinks ==
    {[ttl |-> <<"T", "i", "t", "l", "e", " ", "1">>, number |-> <<>>, year |-> <<>>],
     [ttl |-> <<"/">>, number |-> <<>>, year |-> <<>>]}

\* the links of a bill listing: 'H.1' with its bill number and a year in the
\* href, on every link
BillLinks ==
    {[ttl |-> <<"H", ".", "1">>, number |-> << <<"H", ".", "1">> >>,
      year |-> << <<"2", "0", "2", "5">> >>]}

\* the links of an act listing: 'Act No. 1' with a year in the href, on
\* every link
ActLinks ==
    {[ttl |-> <<"A", "c", "t", " ", "N", "o", ".", " ", "1">>,
      number |-> << <<"A", "c", "t", " ", "N", "o", ".", " ", "1">> >>,
      year |-> << <<"2", "0", "2", "5">> >>]}

\* the listing pages of one scraper: n links in page order
PagesOf(type, links) ==
    UNION {{[i \in 1..n |->
                Metadata(Url(i, q[i].year), type, q[i].ttl, q[i].number, q[i].year)] :
            q \in [1..n -> links]} : n \in 0..MaxLinks}

\* the listing pages: of the statute scraper, of the bill scraper and of the
\* act scraper
Pages ==
    PagesOf(Statute, StatuteLinks) \cup PagesOf(Bill, BillLinks)
    \cup PagesOf(Act, ActLinks)

\* statute_scraper.py lines 112-114, bill_scraper.py lines 129-131,
\* act_scraper.py lines 128-129: the characters kept, stripped, blanks
\* replaced, at most 50 characters
SafeTitle(ttl) ==
    LET kept == SelectSeq(ttl, LAMBDA c : c \in Alnum \cup {" ", "-", "_"})
        trimmed == Strip(kept)
        replaced == [i \in 1..Len(trimmed) |->
                        IF trimmed[i] = " " THEN "_" ELSE trimmed[i]]
    IN  SubSeq(replaced, 1, IF Len(replaced) < 50 THEN Len(replaced) ELSE 50)

\* a variant that leaves the index out of the name
StatuteScraper_generate_filename_NoIndex(metadata, index) ==
    LET safe_title == SafeTitle(Get(metadata, "title", Statute))
    IN  IF safe_title # <<>>
        THEN Statute \o <<"_">> \o safe_title \o DotPdf
        ELSE Statute \o DotPdf

\* statute_scraper.py lines 99-118
StatuteScraper_generate_filename(metadata, index) ==
    LET ttl == Get(metadata, "title", Statute)
        safe_title == SafeTitle(ttl)
    IN  IF safe_title # <<>>
        THEN Statute \o <<"_">> \o safe_title \o <<"_">> \o DecimalStr(index) \o DotPdf
        ELSE Statute \o <<"_">> \o DecimalStr(index) \o DotPdf

\* bill_scraper.py lines 106-134
BillScraper_generate_filename(metadata, index) ==
    LET bill_num == Get(metadata, "bill_number", <<>>)
        year == Get(metadata, "year", <<>>)
        safe_bill == SelectSeq([i \in 1..Len(bill_num) |->
                                   IF bill_num[i] = "." THEN "_" ELSE bill_num[i]],
                               LAMBDA c : c # " ")
        ttl == Get(metadata, "title", Bill)
        safe_title == SafeTitle(ttl)
        tail == <<"_">> \o DecimalStr(index) \o DotPdf
    IN  IF bill_num # <<>>
        THEN IF year # <<>>
             THEN Bill \o <<"_">> \o year \o <<"_">> \o safe_bill \o tail
             ELSE Bill \o <<"_">> \o safe_bill \o tail
        ELSE IF safe_title # <<>>
        THEN Bill \o <<"_">> \o safe_title \o tail
        ELSE Bill \o tail

\* act_scraper.py lines 105-133
ActScraper_generate_filename(metadata, index) ==
    LET act_num == Get(metadata, "act_number", <<>>)
        year == Get(metadata, "year", <<>>)
        safe_act == [i \in 1..Len(act_num) |->
                        IF act_num[i] \in {".", " "} THEN "_" ELSE act_num[i]]
        ttl == Get(metadata, "title", Act)
        safe_title == SafeTitle(ttl)
        tail == <<"_">> \o DecimalStr(index) \o DotPdf
    IN  IF act_num # <<>>
        THEN IF year # <<>>
             THEN Act \o <<"_">> \o year \o <<"_">> \o safe_act \o tail
             ELSE Act \o <<"_">> \o safe_act \o tail
        ELSE IF safe_title # <<>>
        THEN Act \o <<"_">> \o safe_title \o tail
        ELSE Act \o tail

\* a call of fetch_page entered: for the listing page (kind "main"), or from
\* download_pdf for a link, index being the count in the file name
NewFetch(kind, link, index) ==
    [kind |-> kind, link |-> link, index |-> index, events |-> <<>>,
     result |-> "pending"]

\* session.get and raise_for_status, and what came of it: "ok", a
\* "RequestException", or an "Exception" of another class
GetEvent(outcome) == [op |-> "get", outcome |-> outcome, seconds |-> 0]

\* time.sleep(seconds)
SleepEvent(seconds) == [op |-> "sleep", outcome |-> "", seconds |-> seconds]

\* the call of fetch_page that is under way or returned last
CurrentFetch == fetches[Len(fetches)]

\* the loop variable attempt of fetch_page: the requests made so far
Attempt(f) == Len(SelectSeq(f.events, LAMBDA ev : ev.op = "get"))

Fetching == spc \in {"fetch_main", "fetch_pdf"} /\ CurrentFetch.result = "pending"

\* self._generate_filename(metadata, count) (statute_scraper.py line 87,
\* bill_scraper.py line 94, act_scraper.py line 94): the method of the
\* scraper whose find_pdf_links made the metadata
FileName(link, index) ==
    IF link.type = <<Bill>> THEN BillScraper_generate_filename(link, index)
    ELSE IF link.type = <<Act>> THEN ActScraper_generate_filename(link, index)
    ELSE StatuteScraper_generate_filename(link, index)

\* config/settings.py, line 11, relative to BASE_DIR
PDF_DIR == <<"d", "a", "t", "a", "/", "p", "d", "f", "s">>

\* base_scraper.py lines 21-25 and 44: DIR_MAPPING.get(document_type,
\* document_type)
DIR_MAPPING(document_type) ==
    IF document_type = Statute THEN <<"s", "t", "a", "t", "u", "t", "e", "s">>
    ELSE IF document_type = Bill THEN <<"b", "i", "l", "l", "s">>
    ELSE IF document_type = Act THEN <<"a", "c", "t", "s">>
    ELSE document_type

\* base_scraper.py line 45: self.output_dir
output_dir(document_type) == PathJoin(PDF_DIR, DIR_MAPPING(document_type))

\* download_pdf, base_scraper.py line 90: the path the PDF of the link is
\* saved under by the scraper of its type
FilePath(link, index) == PathJoin(output_dir(link.type[1]), FileName(link, index))

\* 'limit and count >= limit' (line 84)
LimitReached(lim, cnt) == lim # None /\ lim[1] # 0 /\ cnt >= lim[1]

InitScrape ==
    /\ ConverterIdle
    /\ ClassifierIdle
    /\ CallsIdle
    /\ GeneratorIdle
    /\ MainIdle
    /\ PipelineIdle
    /\ spc = "scrape"
    /\ limit \in Limits
    /\ page \in Pages
    /\ pdf_links = <<>>
    /\ link_idx = 1
    /\ downloaded = <<>>
    /\ count = 0
    /\ fetches = <<>>
    /\ files = {}
    /\ ret = None

\* scrape, lines 65-68: fetch the listing page
ScrapeCall ==
    /\ spc = "scrape"
    /\ fetches' = Append(fetches, NewFetch("main", 0, 0))
    /\ spc' = "fetch_main"
    /\ UNCHANGED <<outsideScraper, limit, page, pdf_links, link_idx, downloaded,
                   count, files, ret>>

\* fetch_page, lines 58-63: the request succeeds and the response is returned
FetchSucceeds ==
    /\ Fetching
    /\ Attempt(CurrentFetch) < MAX_RETRIES
    /\ fetches' = [fetches EXCEPT ![Len(fetches)].events = Append(@, GetEvent("ok")),
                                  ![Len(fetches)].result = "response"]
    /\ UNCHANGED <<outsideScraper, spc, limit, page, pdf_links, link_idx, downloaded,
                   count, files, ret>>

\* fetch_page, lines 64-67: the request fails and another attempt is left
FetchFailsRetry ==
    /\ Fetching
    /\ Attempt(CurrentFetch) < MAX_RETRIES - 1
    /\ fetches' = [fetches EXCEPT ![Len(fetches)].events =
                       @ \o <<GetEvent("RequestException"), SleepEvent(RETRY_DELAY)>>]
    /\ UNCHANGED <<outsideScraper, spc, limit, page, pdf_links, link_idx, downloaded,
                   count, files, ret>>

\* a fetch_page that sleeps after the last failed attempt as well
FetchFailsLast_Sleeps ==
    /\ Fetching
    /\ Attempt(CurrentFetch) = MAX_RETRIES - 1
    /\ fetches' = [fetches EXCEPT ![Len(fetches)].events =
                       @ \o <<GetEvent("RequestException"), SleepEvent(RETRY_DELAY)>>,
                                  ![Len(fetches)].result = "None"]
    /\ UNCHANGED <<outsideScraper, spc, limit, page, pdf_links, link_idx, downloaded,
                   count, files, ret>>

\* fetch_page, lines 64-70: the request of the last attempt fails
FetchFailsLast ==
    /\ Fetching
    /\ Attempt(CurrentFetch) = MAX_RETRIES - 1
    /\ fetches' = [fetches EXCEPT ![Len(fetches)].events =
                                      Append(@, GetEvent("RequestException")),
                                  ![Len(fetches)].result = "None"]
    /\ UNCHANGED <<outsideScraper, spc, limit, page, pdf_links, link_idx, downloaded,
                   count, files, ret>>

\* fetch_page, lines 59-64: an exception that is no RequestException is not
\* caught in fetch_page
FetchRaises ==
    /\ Fetching
    /\ Attempt(CurrentFetch) < MAX_RETRIES
    /\ fetches' = [fetches EXCEPT ![Len(fetches)].events =
                                      Append(@, GetEvent("Exception")),
                                  ![Len(fetches)].result = "raised"]
    /\ UNCHANGED <<outsideScraper, spc, limit, page, pdf_links, link_idx, downloaded,
                   count, files, ret>>

\* scrape, line 68: nothing catches the exception of fetch_page
MainPageRaised ==
    /\ spc = "fetch_main"
    /\ CurrentFetch.result = "raised"
    /\ spc' = "raised"
    /\ UNCHANGED <<outsideScraper, limit, page, pdf_links, link_idx, downloaded,
                   count, fetches, files, ret>>

\* a scrape that goes on to the links although no listing page came
MainPageFailed_GoesOn ==
    /\ spc = "fetch_main"
    /\ CurrentFetch.result = "None"
    /\ pdf_links' = page
    /\ downloaded' = <<>>
    /\ count' = 0
    /\ link_idx' = 1
    /\ spc' = "loop"
    /\ UNCHANGED <<outsideScraper, limit, page, fetches, files, ret>>

\* scrape, lines 69-71: no listing page
MainPageFailed ==
    /\ spc = "fetch_main"
    /\ CurrentFetch.result = "None"
    /\ ret' = <<>>
    /\ spc' = "returned"
    /\ UNCHANGED <<outsideScraper, limit, page, pdf_links, link_idx, downloaded,
                   count, fetches, files>>

\* scrape, lines 73-82: the links of the page, and the locals of the loop
MainPageParsed ==
    /\ spc = "fetch_main"
    /\ CurrentFetch.result = "response"
    /\ pdf_links' = page
    /\ downloaded' = <<>>
    /\ count' = 0
    /\ link_idx' = 1
    /\ spc' = "loop"
    /\ UNCHANGED <<outsideScraper, limit, page, fetches, files, ret>>

\* scrape, lines 83-91, and download_pdf, lines 84-86: the next link
LoopDownload ==
    /\ spc = "loop"
    /\ link_idx <= Len(pdf_links)
    /\ ~LimitReached(limit, count)
    /\ fetches' = Append(fetches, NewFetch("pdf", pdf_links[link_idx], count))
    /\ spc' = "fetch_pdf"
    /\ UNCHANGED <<outsideScraper, limit, page, pdf_links, link_idx, downloaded,
                   count, files, ret>>

\* scrape, lines 84-85 and 96-97: the limit is reached
LoopBreak ==
    /\ spc = "loop"
    /\ link_idx <= Len(pdf_links)
    /\ LimitReached(limit, count)
    /\ ret' = downloaded
    /\ spc' = "returned"
    /\ UNCHANGED <<outsideScraper, limit, page, pdf_links, link_idx, downloaded,
                   count, fetches, files>>

\* scrape, lines 83 and 96-97: no link is left
LoopEnd ==
    /\ spc = "loop"
    /\ link_idx > Len(pdf_links)
    /\ ret' = downloaded
    /\ spc' = "returned"
    /\ UNCHANGED <<outsideScraper, limit, page, pdf_links, link_idx, downloaded,
                   count, fetches, files>>

\* download_pdf, lines 87-88 (no response) or 97-99 (the exception of
\* fetch_page is caught), and scrape, line 92: None is returned, no file
DownloadFailed ==
    /\ spc = "fetch_pdf"
    /\ CurrentFetch.result \in {"None", "raised"}
    /\ link_idx' = link_idx + 1
    /\ spc' = "loop"
    /\ UNCHANGED <<outsideScraper, limit, page, pdf_links, downloaded,
                   count, fetches, files, ret>>

\* download_pdf, lines 90-96, and scrape, lines 92-94: the file is written
SaveFile ==
    /\ spc = "fetch_pdf"
    /\ CurrentFetch.result = "response"
    /\ files' = files \cup {FilePath(CurrentFetch.link, CurrentFetch.index)}
    /\ downloaded' = Append(downloaded,
                            <<FilePath(CurrentFetch.link, CurrentFetch.index),
                              CurrentFetch.link>>)
    /\ count' = count + 1
    /\ link_idx' = link_idx + 1
    /\ spc' = "loop"
    /\ UNCHANGED <<outsideScraper, limit, page, pdf_links, fetches, ret>>

\* download_pdf, lines 92-93 and 97-99: open or write raises, the exception
\* is caught and None is returned; the file exists if open had made it
SaveRaises ==
    /\ spc = "fetch_pdf"
    /\ CurrentFetch.result = "response"
    /\ \E created \in BOOLEAN :
           files' = IF created
                    THEN files \cup {FilePath(CurrentFetch.link, CurrentFetch.index)}
                    ELSE files
    /\ link_idx' = link_idx + 1
    /\ spc' = "loop"
    /\ UNCHANGED <<outsideScraper, limit, page, pdf_links, downloaded,
                   count, fetches, ret>>

NextScrape ==
    \/ ScrapeCall
    \/ FetchSucceeds
    \/ FetchFailsRetry
    \/ FetchFailsLast
    \/ FetchRaises
    \/ MainPageRaised
    \/ MainPageFailed
    \/ MainPageParsed
    \/ LoopDownload
    \/ LoopBreak
    \/ LoopEnd
    \/ DownloadFailed
    \/ SaveFile
    \/ SaveRaises

SpecScrape == InitScrape /\ [][NextScrape]_vars

\* the calls of fetch_page that download_pdf made, in order
PdfFetches == SelectSeq(fetches, LAMBDA f : f.kind = "pdf")

\* the links of the entries of a list that scrape builds
LinksOf(list) == {list[i][2] : i \in 1..Len(list)}

\* where on the page a link stands
PositionOn(links, link) == CHOOSE i \in 1..Len(links) : links[i] = link

\* C26: for every integer limit >= 0, at most limit downloads succeed and the
\* returned list has at most limit entries.
C26_LimitIsMaximum ==
    limit # None =>
        /\ Len(downloaded) <= limit[1]
        /\ spc = "returned" => Len(ret) <= limit[1]

\* what fetch_page does in one call, read from its requests and sleeps
FetchPageContract(f) ==
    LET ev == f.events
        n == Len(ev)
        gets == {i \in 1..n : ev[i].op = "get"}
        failed == {i \in gets : ev[i].outcome = "RequestException"}
        nth(i) == Cardinality({j \in gets : j <= i})
    IN  /\ Cardinality(gets) <= MAX_RETRIES
        /\ \A i \in gets : ev[i].outcome = "ok" => i = n /\ f.result = "response"
        /\ f.result = "response" => n > 0 /\ ev[n] = GetEvent("ok")
        /\ f.result = "None" <=> Cardinality(failed) = MAX_RETRIES
        /\ \A i \in failed :
              IF nth(i) < MAX_RETRIES
              THEN i < n /\ ev[i + 1] = SleepEvent(RETRY_DELAY)
              ELSE i = n
        /\ \A i \in 1..n : ev[i].op = "sleep" => i > 1 /\ (i - 1) \in failed

\* C28: every call of fetch_page makes at most MAX_RETRIES requests, returns
\* the response of the first request that succeeds and makes no request after
\* it, returns None exactly when MAX_RETRIES requests failed with a request
\* error, and sleeps RETRY_DELAY after every failed request but the last.
C28_FetchPageRetries ==
    \A k \in 1..Len(fetches) : FetchPageContract(fetches[k])

\* one call gave up after MAX_RETRIES failures, another got its response at
\* the second attempt
C28_Witness ==
    \E k, m \in 1..Len(fetches) :
        /\ fetches[k].result = "None"
        /\ Attempt(fetches[k]) = MAX_RETRIES
        /\ fetches[m].result = "response"
        /\ Attempt(fetches[m]) = 2

\* C29: a link whose download failed is not in the list and does not count
\* towards the limit, the scraper goes on to the later links, the entries are
\* in page order, and no download is attempted once the number of successful
\* downloads has reached the limit.
C29_FailedDownloadsSkipped ==
    /\ \A k \in 1..Len(PdfFetches) :
          PdfFetches[k].result \in {"None", "raised"}
              => PdfFetches[k].link \notin LinksOf(downloaded)
    /\ spc \in {"loop", "fetch_pdf", "returned"} => count = Len(downloaded)
    /\ \A i \in 1..Len(downloaded) :
          /\ downloaded[i][1] \in files
          /\ \A j \in 1..Len(downloaded) : i < j =>
              PositionOn(pdf_links, downloaded[i][2]) < PositionOn(pdf_links, downloaded[j][2])
    /\ (spc = "returned" /\ fetches[1].result = "response") =>
          /\ ret = downloaded
          /\ \/ Len(PdfFetches) = Len(page)
             \/ limit # None /\ Len(downloaded) >= limit[1]
    /\ limit # None =>
          \A k \in 1..Len(PdfFetches) : PdfFetches[k].index < limit[1]

\* the other downloads of the call whose fetch gave a response and that were
\* to be saved under the name of the k-th
SavedUnderNameOf(k) ==
    {m \in 1..Len(PdfFetches) :
        /\ m # k
        /\ PdfFetches[m].result = "response"
        /\ FileName(PdfFetches[m].link, PdfFetches[m].index) =
              FileName(PdfFetches[k].link, PdfFetches[k].index)}

\* C30: when the listing page cannot be fetched, scrape returns the empty
\* list after that one fetch and no file exists; a download whose fetch
\* failed leaves no file (a file of its name is there only if another
\* download, whose fetch succeeded, was saved under that name) and no entry,
\* and no exception leaves download_pdf.
C30_FetchFailureHandled ==
    /\ (fetches # <<>> /\ fetches[1].result = "None") =>
          /\ Len(fetches) = 1
          /\ files = {}
          /\ spc \in {"fetch_main", "returned"}
          /\ spc = "returned" => ret = <<>>
    /\ \A k \in 1..Len(PdfFetches) :
          PdfFetches[k].result \in {"None", "raised"} =>
              /\ FilePath(PdfFetches[k].link, PdfFetches[k].index) \in files
                    => SavedUnderNameOf(k) # {}
              /\ PdfFetches[k].link \notin LinksOf(downloaded)
    /\ spc = "raised" => CurrentFetch.kind = "main"

\* scrape returned after the fetch of a listing page with links gave up
C30_Witness ==
    /\ spc = "returned"
    /\ fetches[1].result = "None"
    /\ Len(page) > 0

(***************************************************************************)
(* XMLGenerator.generate_xml and _save_xml.  File names, paths and the     *)
(* texts of elements are sequences of characters.  An argument is None     *)
(* (None or the empty dict) or <<d>> for a dict d, of which each key holds *)
(* <<>> when the dict lacks it and <<v>> when it maps it to v; the empty   *)
(* sequence for v is the empty string, or None.                            *)
(***************************************************************************)
\* config/settings.py, line 12, relative to BASE_DIR
XML_DIR == <<"d", "a", "t", "a", "/", "x", "m", "l">>

DotXml == <<".", "x", "m", "l">>

\* self.dir_mapping, lines 22-26
dir_mapping ==
    (Statute :> <<"s", "t", "a", "t", "u", "t", "e", "s">>)
    @@ (Bill :> <<"b", "i", "l", "l", "s">>)
    @@ (Act :> <<"a", "c", "t", "s">>)

\* the document types parsed data comes with: the three of the mapping, one
\* the mapping lacks, one that holds a form feed, None and no
\* 'document_type' key
DocumentTypes ==
    {<<Statute>>, <<Bill>>, <<Act>>,
     << <<"r", "e", "s", "o", "l", "u", "t", "i", "o", "n">> >>,
     << <<"a", "\f", "b">> >>, << <<>> >>, <<>>}

\* the file names parse_pdf stores (os.path.basename of the PDF path), and no
\* 'filename' key
FileNames ==
    {<<<<"a", ".", "p", "d", "f">>>>,
     <<<<"a", ".", "b", ".", "p", "d", "f">>>>,
     <<<<"a", ".", ".", "p", "d", "f">>>>,
     <<<<"a", "b">>>>,
     <<<<".", "p", "d", "f">>>>,
     <<<<"a", ".">>>>,
     <<>>}

\* extracted text: none, plain, and with a form feed, which XML 1.0 forbids
TextContents == {<<>>, <<<<"x">>>>, <<<<"x", "\f", "y">>>>}

\* a number in decimal, with zeros before it up to the width
RECURSIVE ZeroPad(_, _)
ZeroPad(q, width) == IF Len(q) >= width THEN q ELSE ZeroPad(<<"0">> \o q, width)

\* a reading of the clock, as datetime.now() gives it
DateTime(year, month, day, hour, minute, second, microsecond) ==
    [year |-> year, month |-> month, day |-> day, hour |-> hour,
     minute |-> minute, second |-> second, microsecond |-> microsecond]

\* datetime.isoformat(): the date, 'T', the time of day as HH:MM:SS and,
\* unless they are zero, a dot and the six digits of the microseconds
isoformat(now) ==
    ZeroPad(DecimalStr(now.year), 4) \o <<"-">> \o ZeroPad(DecimalStr(now.month), 2)
    \o <<"-">> \o ZeroPad(DecimalStr(now.day), 2) \o <<"T">>
    \o ZeroPad(DecimalStr(now.hour), 2) \o <<":">> \o ZeroPad(DecimalStr(now.minute), 2)
    \o <<":">> \o ZeroPad(DecimalStr(now.second), 2)
    \o (IF now.microsecond = 0 THEN <<>>
        ELSE <<".">> \o ZeroPad(DecimalStr(now.microsecond), 6))

\* clock readings of the day 2026-10-30: midnight, and 15:28:01.120480
Midnight == DateTime(2026, 10, 30, 0, 0, 0, 0)

Afternoon == DateTime(2026, 10, 30, 15, 28, 1, 120480)

\* the values of 'parsed_date': the clock at midnight, and one that holds a
\* form feed
ParsedDates == {<<isoformat(Midnight)>>, << <<"p", "\f", "q">> >>}

\* the dict _extract_metadata makes (pdf_parser.py lines 71-90)
PdfMeta(num_pages, ttl, author) ==
    [num_pages |-> num_pages, title |-> ttl, author |-> author, creator |-> <<>>,
     creationdate |-> <<>>]

\* the values of 'metadata': no key, the empty dict, the page count alone, a
\* title and an author, and a title that holds a form feed
PdfMetas ==
    {<<>>,
     <<PdfMeta(<<>>, <<>>, <<>>)>>,
     <<PdfMeta(<<1>>, << <<>> >>, <<>>)>>,
     <<PdfMeta(<<12>>, << <<"t">> >>, << <<"a">> >>)>>,
     <<PdfMeta(<<1>>, << <<"t", "\f">> >>, <<>>)>>}

\* the values of scraper_metadata: None, and the metadata of a link of each
\* listing
ScraperMetadatas ==
    {None} \cup
    {<<Metadata(Url(1, q.year), t, q.ttl, q.number, q.year)>> :
        t \in {Statute}, q \in StatuteLinks}
    \cup {<<Metadata(Url(1, q.year), t, q.ttl, q.number, q.year)>> :
            t \in {Bill}, q \in BillLinks}
    \cup {<<Metadata(Url(1, q.year), t, q.ttl, q.number, q.year)>> :
            t \in {Act}, q \in ActLinks}

\* a dict with the keys of the one parse_pdf makes (pdf_parser.py lines
\* 45-52)
ParsedData(pdf_path, document_type, filename, pdf_meta, text_content, parsed_date) ==
    [pdf_path |-> pdf_path, document_type |-> document_type, filename |-> filename,
     metadata |-> pdf_meta, text_content |-> text_content,
     parsed_date |-> parsed_date]

\* the dicts handed to generate_xml; one that has a file name has the path of
\* that file in the folder of the PDFs
ParsedDatas ==
    {None} \cup
    {<<ParsedData(IF f = <<>> THEN <<>> ELSE <<PathJoin(PDF_DIR, f[1])>>, t, f, m, x, p)>> :
        t \in DocumentTypes, f \in FileNames, m \in PdfMetas, x \in TextContents,
        p \in ParsedDates}

\* a dict is truthy when it holds a key
Truthy(dict) == \E key \in DOMAIN dict : dict[key] # <<>>

\* an os.path.splitext that cuts at the first dot
splitext_FirstDot(p) ==
    LET dots == {i \in 1..Len(p) : p[i] = "."}
        dotIndex == IF dots = {} THEN 0 ELSE CHOOSE i \in dots : \A j \in dots : i <= j
    IN  IF dotIndex > 1
        THEN <<SubSeq(p, 1, dotIndex - 1), SubSeq(p, dotIndex, Len(p))>>
        ELSE <<p, <<>>>>

\* os.path.splitext: the extension starts at the last dot of the last path
\* component, unless only dots precede it there
splitext(p) ==
    LET sepIndex == RFind(p, "/")
        dotIndex == RFind(p, ".")
    IN  IF /\ dotIndex > sepIndex
           /\ \E i \in (sepIndex + 1)..(dotIndex - 1) : p[i] # "."
        THEN <<SubSeq(p, 1, dotIndex - 1), SubSeq(p, dotIndex, Len(p))>>
        ELSE <<p, <<>>>>

\* _save_xml, lines 260-263
OutputDir(document_type) ==
    IF document_type \in DOMAIN dir_mapping
    THEN PathJoin(XML_DIR, dir_mapping[document_type])
    ELSE XML_DIR

\* _save_xml, lines 255-265
OutputPath(d, document_type) ==
    LET original_filename == Get(d, "filename", <<"d", "o", "c", "u", "m", "e", "n", "t", ".", "p", "d", "f">>)
        base_name == splitext(original_filename)[1]
        xml_filename == base_name \o DotXml
    IN  PathJoin(OutputDir(document_type), xml_filename)

\* ET.SubElement(parent, tag).text = txt
TextElem(tag, txt) == Elem(tag, <<>>, txt, <<>>)

\* the element of a key the dict may hold: lines 92-93, 140-143, 190-193
KeyElem(dict, key, tag) ==
    IF dict[key] # <<>> THEN <<TextElem(tag, dict[key][1])>> ELSE <<>>

\* the element of a key whose value is truthy: lines 100-107
TruthyKeyElem(dict, key, tag) ==
    IF dict[key] # <<>> /\ dict[key][1] # <<>>
    THEN <<TextElem(tag, dict[key][1])>> ELSE <<>>

\* lines 89-93, 137-143, 187-193: what the scraper metadata adds to the
\* metadata element of a statute, a bill or an act
ScraperElems(document_type, sm) ==
    IF sm = None \/ ~Truthy(sm[1]) THEN <<>>
    ELSE <<TextElem("title", Get(sm[1], "title", <<>>)),
           TextElem("source_url", Get(sm[1], "url", <<>>))>>
         \o (IF document_type = Statute
             THEN KeyElem(sm[1], "statute_title", "statute_title")
             ELSE IF document_type = Bill
             THEN KeyElem(sm[1], "bill_number", "bill_number")
                  \o KeyElem(sm[1], "year", "session_year")
             ELSE KeyElem(sm[1], "act_number", "act_number")
                  \o KeyElem(sm[1], "year", "enactment_year"))

\* lines 96-107, 146-157, 196-207: the pdf_metadata element
PdfMetadataElems(d) ==
    LET pdf_meta == Get(d, "metadata", PdfMeta(<<>>, <<>>, <<>>))
    IN  IF ~Truthy(pdf_meta) THEN <<>>
        ELSE <<Elem("pdf_metadata", <<>>, <<>>,
                    <<TextElem("num_pages", DecimalStr(Get(pdf_meta, "num_pages", 0)))>>
                    \o TruthyKeyElem(pdf_meta, "title", "pdf_title")
                    \o TruthyKeyElem(pdf_meta, "author", "author")
                    \o TruthyKeyElem(pdf_meta, "creator", "creator")
                    \o TruthyKeyElem(pdf_meta, "creationdate", "creation_date"))>>

\* lines 110-113, 160-163, 210-213, 235-238: the content element
ContentElem(d) ==
    LET text_content == Get(d, "text_content", <<>>)
    IN  Elem("content", <<>>, <<>>,
             IF text_content # <<>> THEN <<TextElem("full_text", text_content)>>
             ELSE <<>>)

\* the keys of a dict find_pdf_links made, in the order it set them
MetadataKeys ==
    <<"url", "title", "type", "link_text", "bill_number", "act_number", "year",
      "statute_title">>

\* lines 229-232: an element for every key whose value is truthy
RECURSIVE GenericScraperElems(_, _)
GenericScraperElems(sm, keys) ==
    IF keys = <<>> THEN <<>>
    ELSE TruthyKeyElem(sm, Head(keys), Head(keys))
         \o GenericScraperElems(sm, Tail(keys))

\* _generate_statute_xml, _generate_bill_xml and _generate_act_xml (lines
\* 69-215) for a document type of theirs, _generate_generic_xml (lines
\* 217-240) for any other: the root element
GenerateRoot(d, document_type, sm) ==
    IF document_type \in {Statute, Bill, Act}
    THEN Elem(Str(document_type),
              << <<"xmlns", "http://legislature.vermont.gov/" \o Str(document_type)>> >>,
              <<>>,
              <<Elem("metadata", <<>>, <<>>,
                     <<TextElem("document_type", document_type),
                       TextElem("source_file", Get(d, "filename", <<>>)),
                       TextElem("parsed_date", Get(d, "parsed_date", <<>>))>>
                     \o ScraperElems(document_type, sm)
                     \o PdfMetadataElems(d)),
                ContentElem(d)>>)
    ELSE Elem("document", <<>>, <<>>,
              <<Elem("metadata", <<>>, <<>>,
                     <<TextElem("document_type", document_type),
                       TextElem("source_file", Get(d, "filename", <<>>)),
                       TextElem("parsed_date", Get(d, "parsed_date", <<>>))>>
                     \o (IF sm = None THEN <<>>
                         ELSE GenericScraperElems(sm[1], MetadataKeys))),
                ContentElem(d)>>)

\* the texts of an element and of the elements below it, three levels deep
TextsOf(root) ==
    {root.text}
    \cup {root.children[i].text : i \in 1..Len(root.children)}
    \cup UNION {{root.children[i].children[j].text :
                    j \in 1..Len(root.children[i].children)} :
                i \in 1..Len(root.children)}
    \cup UNION {UNION {{root.children[i].children[j].children[k].text :
                          k \in 1..Len(root.children[i].children[j].children)} :
                       j \in 1..Len(root.children[i].children)} :
                i \in 1..Len(root.children)}

\* minidom.parseString(ET.tostring(root)) (lines 268-269) accepts the
\* document: no text of it holds a character XML forbids
WellFormed(root) ==
    \A txt \in TextsOf(root) : \A i \in 1..Len(txt) : txt[i] \notin XmlIllegalChars

\* parsed_data.get('document_type', 'unknown'), line 47
DocumentTypeOf(d) == Get(d, "document_type", <<"u", "n", "k", "n", "o", "w", "n">>)

InitGenerate ==
    /\ ConverterIdle
    /\ ClassifierIdle
    /\ CallsIdle
    /\ ScraperIdle
    /\ MainIdle
    /\ PipelineIdle
    /\ gpc = "generate_xml"
    /\ parsed_data \in ParsedDatas
    /\ scraper_metadata \in ScraperMetadatas
    /\ xml_content = None
    /\ xml_files = {}
    /\ output_path = None

\* generate_xml, lines 43-45
GenerateNothing ==
    /\ gpc = "generate_xml"
    /\ parsed_data = None
    /\ output_path' = None
    /\ gpc' = "returned"
    /\ UNCHANGED <<outsideGenerator, parsed_data, scraper_metadata, xml_content, xml_files>>

\* generate_xml, lines 47-59
GenerateContent ==
    /\ gpc = "generate_xml"
    /\ parsed_data # None
    /\ xml_content' = <<GenerateRoot(parsed_data[1], DocumentTypeOf(parsed_data[1]),
                                    scraper_metadata)>>
    /\ gpc' = "save"
    /\ UNCHANGED <<outsideGenerator, parsed_data, scraper_metadata, xml_files, output_path>>

\* _save_xml, lines 268-270, and generate_xml, lines 65-67: the parser
\* refuses the serialized document, the exception is caught
PrettyPrintRaises ==
    /\ gpc = "save"
    /\ ~WellFormed(xml_content[1])
    /\ output_path' = None
    /\ gpc' = "caught"
    /\ UNCHANGED <<outsideGenerator, parsed_data, scraper_metadata, xml_content, xml_files>>

\* _save_xml, lines 255-277, and generate_xml, lines 62-63
SaveXml ==
    /\ gpc = "save"
    /\ WellFormed(xml_content[1])
    /\ xml_files' = xml_files \cup {OutputPath(parsed_data[1], DocumentTypeOf(parsed_data[1]))}
    /\ output_path' = <<OutputPath(parsed_data[1], DocumentTypeOf(parsed_data[1]))>>
    /\ gpc' = "returned"
    /\ UNCHANGED <<outsideGenerator, parsed_data, scraper_metadata, xml_content>>

\* _save_xml, lines 273-274, and generate_xml, lines 65-67: open or write
\* raises, the exception is caught; the file exists if open had made it
WriteRaises ==
    /\ gpc = "save"
    /\ WellFormed(xml_content[1])
    /\ \E created \in BOOLEAN :
           xml_files' = IF created
                        THEN xml_files \cup {OutputPath(parsed_data[1],
                                                        DocumentTypeOf(parsed_data[1]))}
                        ELSE xml_files
    /\ output_path' = None
    /\ gpc' = "caught"
    /\ UNCHANGED <<outsideGenerator, parsed_data, scraper_metadata, xml_content>>

NextGenerate ==
    \/ GenerateNothing
    \/ GenerateContent
    \/ PrettyPrintRaises
    \/ SaveXml
    \/ WriteRaises

SpecGenerate == InitGenerate /\ [][NextGenerate]_vars

\* the file name has an extension: a dot that a character other than a dot
\* precedes
HasExtension(name) ==
    \E i \in 1..Len(name) : name[i] = "." /\ \E j \in 1..(i - 1) : name[j] # "."

\* stem is name without its extension, the extension being what follows the
\* last dot, that dot included
StemOf(stem, name) ==
    IF HasExtension(name)
    THEN \E ext \in {SubSeq(name, i, Len(name)) : i \in 1..Len(name)} :
            /\ name = stem \o ext
            /\ ext[1] = "."
            /\ \A i \in 2..Len(ext) : ext[i] # "."
    ELSE stem = name

\* the directory the claim names for a document type
ClaimedDir(document_type) ==
    CASE document_type = Statute -> "data/xml/statutes"
      [] document_type = Bill -> "data/xml/bills"
      [] document_type = Act -> "data/xml/acts"
      [] OTHER -> "data/xml"

\* the format the claim names for a document type: the tag of the root
ClaimedFormat(document_type) ==
    IF document_type \in {Statute, Bill, Act} THEN Str(document_type) ELSE "document"

\* the path is a file directly in directory dir that carries the name of the
\* source file with .xml for its extension
PlacedIn(path, dir, source) ==
    \E k \in 1..(Len(path) - 1) :
        /\ Str(SubSeq(path, 1, k - 1)) = dir
        /\ path[k] = "/"
        /\ \A i \in (k + 1)..Len(path) : path[i] # "/"
        /\ \E stem \in {SubSeq(source, 1, i) : i \in 0..Len(source)} :
              /\ StemOf(stem, source)
              /\ SubSeq(path, k + 1, Len(path)) = stem \o DotXml

\* the source file name of parsed data d
SourceName(d) == Get(d, "filename", <<"d", "o", "c", "u", "m", "e", "n", "t", ".", "p", "d", "f">>)

\* the call returned the path of a file it wrote, in the directory and the
\* format of the document type, named after the source file
ReturnedWrittenPath ==
    /\ output_path # None
    /\ output_path[1] \in xml_files
    /\ PlacedIn(output_path[1], ClaimedDir(DocumentTypeOf(parsed_data[1])),
                SourceName(parsed_data[1]))
    /\ xml_content[1].tag = ClaimedFormat(DocumentTypeOf(parsed_data[1]))

\* C27 as stated: for parsed data of type statute, bill or act generate_xml
\* returns the path of a file it has written, in the directory mapped to the
\* type and named after the source file name with .xml for its extension;
\* for another type the format is the generic one and the directory is the
\* root XML directory.
C27_PathForEveryParsedData ==
    (gpc \in {"returned", "caught"} /\ parsed_data # None) => ReturnedWrittenPath

\* C27, amended: the same of every call in which nothing raises; a call in
\* which building or saving raises returns None.
C27_PathUnlessRaised ==
    parsed_data # None =>
        /\ gpc = "returned" => ReturnedWrittenPath
        /\ gpc = "caught" => output_path = None
        /\ (gpc \in {"returned", "caught"} /\ ~WellFormed(xml_content[1]))
              => output_path = None /\ xml_files = {}

\* a bill whose file name holds two dots was written under bills
C27_Witness ==
    /\ gpc = "returned"
    /\ parsed_data # None
    /\ parsed_data[1].document_type = <<Bill>>
    /\ output_path # None
    /\ Str(output_path[1]) = "data/xml/bills/a.b.xml"
    /\ output_path[1] \in xml_files

(***************************************************************************)
(* main of main.py: every scraper scrapes, and unless --no-convert is      *)
(* given each PDF it handed back is parsed and turned into XML by          *)
(* generate_xml, which runs as the actions above.  What scrape hands back, *)
(* what parse_pdf reads and whether a file can be written is decided by    *)
(* the outside world.                                                      *)
(***************************************************************************)
\* args.document_type: 'statute', 'bill', 'act' or 'all' (lines 53-65)
ScraperLists == {<<Statute>>, <<Bill>>, <<Act>>, <<Statute, Bill, Act>>}

\* args.limit: none given, or 1
MainLimits == {None, <<1>>}

\* the listing pages of the scraper of a document type: MaxPdfs links at
\* most, on a statute listing with the text 'Title 1'
MainPages(type) ==
    {pg \in (IF type = Statute
             THEN PagesOf(Statute, {q \in StatuteLinks : q.ttl # <<"/">>})
             ELSE IF type = Bill THEN PagesOf(Bill, BillLinks)
             ELSE PagesOf(Act, ActLinks)) : Len(pg) <= MaxPdfs}

\* pdf_parser.py line 110: the header put before the text of page n
PageHeader(n) ==
    <<"\n", "-", "-", "-", " ", "P", "a", "g", "e", " ">> \o DecimalStr(n)
    \o <<" ", "-", "-", "-", "\n">>

\* pdf_parser.py lines 102-111: the text after the pages from n on, of which
\* a page that gave no text, or raised, holds the empty text
RECURSIVE PagesText(_, _)
PagesText(page_texts, n) ==
    IF n > Len(page_texts) THEN <<>>
    ELSE (IF page_texts[n] # <<>> THEN PageHeader(n) \o page_texts[n] ELSE <<>>)
         \o PagesText(page_texts, n + 1)

\* _extract_text, pdf_parser.py lines 92-118
extract_text(page_texts) == Strip(PagesText(page_texts, 1))

\* what the pages of a PDF give: a page without text, the text x, and a
\* page without text before one whose text holds a form feed
MainPageTexts ==
    {<< <<>> >>, << <<"x">> >>, << <<>>, <<"x", "\f", "y", " ">> >>}

\* the texts parse_pdf extracts
MainTexts == {extract_text(page_texts) : page_texts \in MainPageTexts}

\* the dict _extract_metadata hands back: the page count with a title
MainPdfMetas == {PdfMeta(<<1>>, << <<"t">> >>, <<>>)}

\* parse_pdf, lines 39-55: the dict of a PDF that could be read, now being
\* what datetime.now() gives at line 51
ParsedPdf(pdf_path, doc_type, pdf_meta, content, now) ==
    <<ParsedData(<<pdf_path>>, <<doc_type>>, <<os_path_basename(pdf_path)>>,
                 <<pdf_meta>>, <<content>>, <<isoformat(now)>>)>>

\* how the body of the inner loop ended for one PDF
Conversion(doc_type, name, outcome, xml_path) ==
    [doc_type |-> doc_type, pdf |-> name, outcome |-> outcome, xml_path |-> xml_path]

InitMainLoop ==
    /\ ConverterIdle
    /\ ClassifierIdle
    /\ CallsIdle
    /\ GeneratorIdle
    /\ PipelineIdle
    /\ spc = "idle"
    /\ limit \in MainLimits
    /\ page = <<>>
    /\ pdf_links = <<>>
    /\ link_idx = 1
    /\ downloaded = <<>>
    /\ count = 0
    /\ fetches = <<>>
    /\ files = {}
    /\ ret = None
    /\ mpc = "scrape"
    /\ no_convert \in BOOLEAN
    /\ scrapers \in ScraperLists
    /\ scraper_idx = 1
    /\ main_downloaded = <<>>
    /\ pdf_idx = 1
    /\ total_downloaded = 0
    /\ total_converted = 0
    /\ conversions = <<>>

\* both ways into generate_xml: from main, and called on its own
InitMain == InitMainLoop \/ InitGenerate

\* main, line 84: scrape of the scraper at hand is called with args.limit;
\* it runs as the actions of the scrapers
MainScrape ==
    /\ mpc = "scrape"
    /\ scraper_idx <= Len(scrapers)
    /\ \E pg \in MainPages(scrapers[scraper_idx]) :
          /\ total_downloaded + Len(pg) <= MaxDownloads
          /\ page' = pg
    /\ spc' = "scrape"
    /\ pdf_links' = <<>>
    /\ link_idx' = 1
    /\ downloaded' = <<>>
    /\ count' = 0
    /\ fetches' = <<>>
    /\ ret' = None
    /\ mpc' = "scraping"
    /\ UNCHANGED <<outsideMain, generateVars, limit, files, no_convert, scrapers,
                   scraper_idx, main_downloaded, pdf_idx, total_downloaded,
                   total_converted, conversions>>

\* main, lines 84-90: scrape is back with its list, its frame is gone
MainScrapeReturned ==
    /\ mpc = "scraping"
    /\ spc = "returned"
    /\ main_downloaded' = ret
    /\ total_downloaded' = total_downloaded + Len(ret)
    /\ IF ~no_convert /\ ret # <<>>
       THEN mpc' = "convert" /\ scraper_idx' = scraper_idx
       ELSE mpc' = "scrape" /\ scraper_idx' = scraper_idx + 1
    /\ pdf_idx' = 1
    /\ spc' = "idle"
    /\ page' = <<>>
    /\ pdf_links' = <<>>
    /\ link_idx' = 1
    /\ downloaded' = <<>>
    /\ count' = 0
    /\ fetches' = <<>>
    /\ ret' = None
    /\ UNCHANGED <<outsideMain, generateVars, limit, files, no_convert, scrapers,
                   total_converted, conversions>>

\* main, line 84: scrape raised what fetch_page does not catch; the call
\* is in no try, so main ends with the exception
MainScrapeRaised ==
    /\ mpc = "scraping"
    /\ spc = "raised"
    /\ mpc' = "raised"
    /\ UNCHANGED <<outsideMain, scrapeVars, generateVars, no_convert, scrapers,
                   scraper_idx, main_downloaded, pdf_idx, total_downloaded,
                   total_converted, conversions>>

\* main, lines 93-97, and parse_pdf, lines 31-33 and 57-59: no parsed data
MainParseFails ==
    /\ mpc = "convert"
    /\ pdf_idx <= Len(main_downloaded)
    /\ conversions' = Append(conversions,
                             Conversion(scrapers[scraper_idx],
                                        main_downloaded[pdf_idx][1],
                                        "parse_failed", None))
    /\ pdf_idx' = pdf_idx + 1
    /\ UNCHANGED <<outsideMain, scrapeVars, generateVars, mpc, no_convert, scrapers,
                   scraper_idx, main_downloaded, total_downloaded, total_converted>>

\* a main whose loop ends at the first exception
MainRaises_Stops ==
    /\ mpc = "convert"
    /\ pdf_idx <= Len(main_downloaded)
    /\ conversions' = Append(conversions,
                             Conversion(scrapers[scraper_idx],
                                        main_downloaded[pdf_idx][1],
                                        "raised", None))
    /\ mpc' = "done"
    /\ UNCHANGED <<outsideMain, scrapeVars, generateVars, no_convert, scrapers,
                   scraper_idx, pdf_idx, main_downloaded, total_downloaded,
                   total_converted>>

\* main, lines 94-104: an exception in the body is caught and logged
MainRaises ==
    /\ mpc = "convert"
    /\ pdf_idx <= Len(main_downloaded)
    /\ conversions' = Append(conversions,
                             Conversion(scrapers[scraper_idx],
                                        main_downloaded[pdf_idx][1],
                                        "raised", None))
    /\ pdf_idx' = pdf_idx + 1
    /\ UNCHANGED <<outsideMain, scrapeVars, generateVars, mpc, no_convert, scrapers,
                   scraper_idx, main_downloaded, total_downloaded, total_converted>>

\* main, lines 96-99: parse_pdf hands back a dict and generate_xml is called
\* with it and the metadata of the link
MainCallGenerate ==
    /\ mpc = "convert"
    /\ pdf_idx <= Len(main_downloaded)
    /\ \E content \in MainTexts, pdf_meta \in MainPdfMetas :
          parsed_data' = ParsedPdf(main_downloaded[pdf_idx][1], scrapers[scraper_idx],
                                   pdf_meta, content, Afternoon)
    /\ scraper_metadata' = <<main_downloaded[pdf_idx][2]>>
    /\ gpc' = "generate_xml"
    /\ xml_content' = None
    /\ output_path' = None
    /\ mpc' = "generating"
    /\ UNCHANGED <<outsideMain, scrapeVars, xml_files, no_convert, scrapers,
                   scraper_idx, main_downloaded, pdf_idx, total_downloaded,
                   total_converted, conversions>>

\* main, lines 99-102: generate_xml is back
MainAfterGenerate ==
    /\ mpc = "generating"
    /\ gpc \in {"returned", "caught"}
    /\ total_converted' = IF output_path # None THEN total_converted + 1
                          ELSE total_converted
    /\ conversions' = Append(conversions,
                             Conversion(scrapers[scraper_idx],
                                        main_downloaded[pdf_idx][1],
                                        IF output_path # None THEN "converted"
                                        ELSE "generate_failed",
                                        output_path))
    /\ pdf_idx' = pdf_idx + 1
    /\ mpc' = "convert"
    /\ UNCHANGED <<outsideMain, scrapeVars, generateVars, no_convert, scrapers,
                   scraper_idx, main_downloaded, total_downloaded>>

\* main, lines 93 and 106: the PDFs of the scraper are through
MainNextScraper ==
    /\ mpc = "convert"
    /\ pdf_idx > Len(main_downloaded)
    /\ scraper_idx' = scraper_idx + 1
    /\ mpc' = "scrape"
    /\ UNCHANGED <<outsideMain, scrapeVars, generateVars, no_convert, scrapers,
                   main_downloaded, pdf_idx, total_downloaded, total_converted,
                   conversions>>

\* main, lines 108-117
MainDone ==
    /\ mpc = "scrape"
    /\ scraper_idx > Len(scrapers)
    /\ mpc' = "done"
    /\ UNCHANGED <<outsideMain, scrapeVars, generateVars, no_convert, scrapers,
                   scraper_idx, main_downloaded, pdf_idx, total_downloaded,
                   total_converted, conversions>>

NextMain ==
    \/ MainScrape
    \/ MainScrapeReturned
    \/ MainScrapeRaised
    \/ MainParseFails
    \/ MainRaises
    \/ MainCallGenerate
    \/ MainAfterGenerate
    \/ MainNextScraper
    \/ MainDone
    \/ NextScrape
    \/ NextGenerate

SpecMain == InitMain /\ [][NextMain]_vars

\* the PDFs of the list that were turned into XML
Converted == SelectSeq(conversions, LAMBDA cv : cv.outcome = "converted")

\* C31: generate_xml ends by returning: None and no file for no parsed data,
\* None from the handler when building or saving raised, the path of the
\* written file otherwise.  In main every downloaded PDF gets its turn
\* whatever became of the ones before, the counter counts the PDFs that
\* gave an XML file, and it never exceeds the downloaded counter.
C31_NeverRaisesLoopGoesOn ==
    /\ gpc \in {"idle", "generate_xml", "save", "returned", "caught"}
    /\ (gpc = "returned" /\ parsed_data = None)
          => output_path = None /\ xml_content = None /\ xml_files = {}
    /\ gpc = "caught" => output_path = None /\ parsed_data # None
    /\ (gpc = "returned" /\ parsed_data # None)
          => /\ output_path # None
             /\ output_path[1] \in xml_files
             /\ WellFormed(xml_content[1])
    /\ total_converted <= total_downloaded
    /\ total_converted = Len(Converted)
    /\ \A i \in 1..Len(conversions) :
          conversions[i].outcome = "converted"
              <=> (conversions[i].xml_path # None /\ conversions[i].xml_path[1] \in xml_files)
    /\ mpc = "done" =>
          Len(conversions) = IF no_convert THEN 0 ELSE total_downloaded

\* main is through; of two PDFs of one scraper the first failed in
\* generate_xml and the second was converted
C31_Witness ==
    /\ mpc = "done"
    /\ \E i \in 1..(Len(conversions) - 1) :
          /\ conversions[i].outcome = "generate_failed"
          /\ conversions[i + 1].outcome = "converted"
          /\ conversions[i + 1].doc_type = conversions[i].doc_type

(***************************************************************************)
(* main of Akoma-Ntoso-XML-Converter.py: every PDF of the input folder is  *)
(* read with PyMuPDF, or with pypdf when that gave no text, saved as TXT,  *)
(* converted and saved as XML.  What the extractions yield and whether a   *)
(* file can be written is decided by the outside world.                    *)
(***************************************************************************)
\* str.replace(old, new) for characters
ReplaceChar(q, old, new) == [i \in 1..Len(q) |-> IF q[i] = old THEN new ELSE q[i]]

\* the sorted names glob finds: the first n of x_a.pdf, x_b.pdf, ...
PipeName(i) == <<"x", "_", <<"a", "b", "c", "d">>[i], ".", "p", "d", "f">>

PipeFileLists == {[i \in 1..n |-> PipeName(i)] : n \in 0..MaxPipeFiles}

\* stripped texts of a PDF, the empty one apart: a section with a line; a
\* text whose second line begins with a form feed, which parse_text strips;
\* and a text with a carriage return and a form feed inside its line
PdfTexts ==
    {Join(<<SecLine, OtherPlainLine>>), <<"x", "\n", "\f", "y">>,
     <<"w", "\f", "\r", "v">>}

\* the texts an extraction can yield: extract_pdf_text_with_pymupdf strips
\* every line (line 484) and the text (line 488), extract_pdf_text_with_pypdf
\* turns the carriage returns into line feeds (line 501) and strips the
\* text (line 503)
TextsOfExtraction(by) ==
    {t \in PdfTexts \cup {<<>>} :
        IF by = "pymupdf"
        THEN \A n \in 1..Len(Split(t)) : Strip(Split(t)[n]) = Split(t)[n]
        ELSE \A i \in 1..Len(t) : t[i] # "\r"}

\* what a call of an extraction does: it yields a text, empty or not, or
\* it raises
ExtractionResults(by) ==
    {[raised |-> FALSE, yielded |-> t] : t \in TextsOfExtraction(by)}
    \cup {[raised |-> TRUE, yielded |-> <<>>]}

\* convert, lines 390-391: its xml_root, the tree build_xml makes of the
\* structure parse_text returns for the text; Alone strips the lines and
\* leaves the blank ones out, as lines 156-158 do
convert_xml_root(self, now, txt, ttl, act_no) ==
    build_xml(self, now, Alone(txt).structure, Str(ttl), Str(act_no))

\* the end-of-line handling of an XML parser: a carriage return, with the
\* line feed that follows it if one does, is read as a line feed
RECURSIVE EndOfLines(_)
EndOfLines(q) ==
    IF q = <<>> THEN <<>>
    ELSE IF q[1] = "\r"
         THEN <<"\n">> \o EndOfLines(IF Len(q) > 1 /\ q[2] = "\n"
                                     THEN SubSeq(q, 3, Len(q)) ELSE Tail(q))
         ELSE <<q[1]>> \o EndOfLines(Tail(q))

\* minidom's _write_data: the characters of markup are written as entities
RECURSIVE write_data(_)
write_data(q) ==
    IF q = <<>> THEN <<>>
    ELSE (CASE q[1] = "&" -> <<"&", "a", "m", "p", ";">>
            [] q[1] = "<" -> <<"&", "l", "t", ";">>
            [] q[1] = "\"" -> <<"&", "q", "u", "o", "t", ";">>
            [] q[1] = ">" -> <<"&", "g", "t", ";">>
            [] OTHER -> <<q[1]>>)
         \o write_data(Tail(q))

\* a text as prettify_xml writes it: minidom.parseString (line 375) reads
\* its ends of line as line feeds, toprettyxml (line 376) writes it
WrittenText(q) == write_data(EndOfLines(q))

\* the structure with every heading and line as prettify_xml writes it;
\* the numbers and letters hold digits and letters only
WrittenStructure(st) ==
    LET Lines(ls) == [i \in 1..Len(ls) |-> WrittenText(ls[i])]
        Item(item) == [item EXCEPT !.content = Lines(@)]
        Entry(c) ==
            IF IsStrEntry(c) THEN [c EXCEPT !.value = WrittenText(@)] ELSE Item(c)
        Subsection(sub) ==
            [sub EXCEPT !.heading = WrittenText(@), !.content = Lines(@),
                        !.items = [i \in 1..Len(@) |-> Item(@[i])]]
        Section(sec) ==
            [sec EXCEPT !.heading = WrittenText(@),
                        !.content = [i \in 1..Len(@) |-> Entry(@[i])],
                        !.subsections = [i \in 1..Len(@) |-> Subsection(@[i])]]
    IN  [preamble |-> Lines(st.preamble),
         sections |-> [i \in 1..Len(st.sections) |-> Section(st.sections[i])]]

\* Element.writexml of minidom with two blanks of indentation and a line
\* feed after every element: an element without text and children is
\* written as an empty tag, one with text alone in one line
RECURSIVE writexml(_, _)
writexml(node, indent) ==
    LET attrs == Str([i \in 1..Len(node.attrib) |->
                        " " \o node.attrib[i][1] \o "=\"" \o node.attrib[i][2] \o "\""])
        start == indent \o "<" \o node.tag \o attrs
        below == Str([i \in 1..Len(node.children) |->
                        writexml(node.children[i], indent \o "  ")])
    IN  IF node.text = "" /\ node.children = <<>> THEN start \o "/>\n"
        ELSE IF node.children = <<>>
        THEN start \o ">" \o node.text \o "</" \o node.tag \o ">\n"
        ELSE start \o ">\n"
             \o (IF node.text = "" THEN "" ELSE indent \o "  " \o node.text \o "\n")
             \o below \o indent \o "</" \o node.tag \o ">\n"

\* convert, lines 390-392: the document returned.  prettify_xml (lines
\* 374-376) serializes the xml_root, has minidom read the result and write
\* it again, indented.  The texts of the tree are the headings and the
\* lines of the structure and the title, the act number goes into attribute
\* values only (where minidom writes tabs and ends of line as they are);
\* the texts of a tree being strings, they are written character by
\* character before the tree is built.  The fields of self hold no
\* character of markup.  toprettyxml(indent="  ", encoding="UTF-8") of line
\* 376 writes the XML declaration first.
convert(self, now, txt, ttl, act_no) ==
    "<?xml version=\"1.0\" encoding=\"UTF-8\"?>\n"
    \o writexml(build_xml(self, now, WrittenStructure(Alone(txt).structure),
                          Str(WrittenText(ttl)), Str(write_data(act_no))), "")

\* lines 528-533
PipeConverter == NewConverter("us", "vt", Day0, Day0)

\* line 538
Basename(pdf) == splitext(pdf)[1]

\* a call of an extraction: by "pymupdf" or "pypdf", with its result
Extraction(by, r) == [by |-> by, raised |-> r.raised, yielded |-> r.yielded]

\* whether the body has called the extraction
Tried(b, by) == \E i \in 1..Len(b.tried) : b.tried[i].by = by

\* a pass of the loop for one PDF: the extractions called, the locals
\* full_text and xml_output, and how the pass ended ("" while it runs).
\* xml_output is a local of main that only line 559 assigns: <<>> while it
\* is not bound, <<s>> when it holds s.  A pass begins with what the pass
\* before has left in it.
Body(pdf, tried, full_text, ended) ==
    [pdf |-> pdf, tried |-> tried, full_text |-> full_text,
     xml_output |-> IF extractions = <<>> THEN <<>>
                    ELSE extractions[Len(extractions)].xml_output,
     ended |-> ended]

\* how many of its len characters a write that raises has left in the
\* file: any number of them but all, MaxWritten at most.  The texts of
\* the PDFs and the documents made of them hold ASCII characters only, so
\* a character is a byte of the file.
WrittenBefore(len) == {n \in 0..(len - 1) : n <= MaxWritten}

\* a file: its name, what was written, whether the write came to its end
File(name, content, complete) ==
    [name |-> name, content |-> content, complete |-> complete]

CurrentBody == extractions[Len(extractions)]

\* line 561: the title handed to convert for the PDF at hand
PipeTitle == TitleCase(ReplaceChar(Basename(CurrentBody.pdf), "_", " "))

\* lines 559-563 and convert, lines 390-391: the tree handed to prettify_xml
\* for the PDF at hand
PipeRoot ==
    convert_xml_root(PipeConverter, Day0, CurrentBody.full_text, PipeTitle,
                     Basename(CurrentBody.pdf))

\* lines 559-563: the document convert returns for the PDF at hand
xml_output ==
    convert(PipeConverter, Day0, CurrentBody.full_text, PipeTitle,
            Basename(CurrentBody.pdf))

InitPipeline ==
    /\ ConverterIdle
    /\ ClassifierIdle
    /\ CallsIdle
    /\ ScraperIdle
    /\ GeneratorIdle
    /\ MainIdle
    /\ ppc = "start"
    /\ fitz \in BOOLEAN
    /\ PdfReader \in BOOLEAN
    /\ pdf_files \in PipeFileLists
    /\ file_idx = 1
    /\ processed = 0
    /\ extractions = <<>>
    /\ txt_files = {}
    /\ out_files = {}

\* lines 521-526: no PDF, main returns
PipeNoPdfs ==
    /\ ppc = "start"
    /\ pdf_files = <<>>
    /\ ppc' = "done"
    /\ UNCHANGED <<outsidePipeline, fitz, PdfReader, pdf_files, file_idx, processed,
                   extractions, txt_files, out_files>>

\* lines 528-536
PipeBegin ==
    /\ ppc = "start"
    /\ pdf_files # <<>>
    /\ ppc' = "loop"
    /\ UNCHANGED <<outsidePipeline, fitz, PdfReader, pdf_files, file_idx, processed,
                   extractions, txt_files, out_files>>

\* lines 536-542 and 571-572: PyMuPDF reads the PDF, or raises
PipePyMuPDF ==
    /\ ppc = "loop"
    /\ file_idx <= Len(pdf_files)
    /\ fitz
    /\ \E r \in ExtractionResults("pymupdf") :
          IF r.raised
          THEN /\ extractions' = Append(extractions,
                      Body(pdf_files[file_idx], <<Extraction("pymupdf", r)>>, <<>>, "raised"))
               /\ file_idx' = file_idx + 1
               /\ ppc' = "loop"
          ELSE /\ extractions' = Append(extractions,
                      Body(pdf_files[file_idx], <<Extraction("pymupdf", r)>>, r.yielded, ""))
               /\ file_idx' = file_idx
               /\ ppc' = "body"
    /\ UNCHANGED <<outsidePipeline, fitz, PdfReader, pdf_files, processed,
                   txt_files, out_files>>

\* lines 536-541: without PyMuPDF full_text stays ""
PipeNoPyMuPDF ==
    /\ ppc = "loop"
    /\ file_idx <= Len(pdf_files)
    /\ ~fitz
    /\ extractions' = Append(extractions, Body(pdf_files[file_idx], <<>>, <<>>, ""))
    /\ ppc' = "body"
    /\ UNCHANGED <<outsidePipeline, fitz, PdfReader, pdf_files, file_idx, processed,
                   txt_files, out_files>>

\* a pipeline that reads every PDF with pypdf as well
PipePypdf_Always ==
    /\ ppc = "body"
    /\ CurrentBody.ended = ""
    /\ ~Tried(CurrentBody, "pypdf")
    /\ \E r \in ExtractionResults("pypdf") :
          /\ ~PdfReader => r = [raised |-> FALSE, yielded |-> <<>>]
          /\ IF r.raised
             THEN /\ extractions' = [extractions EXCEPT
                         ![Len(extractions)].tried = Append(@, Extraction("pypdf", r)),
                         ![Len(extractions)].ended = "raised"]
                  /\ file_idx' = file_idx + 1
                  /\ ppc' = "loop"
             ELSE /\ extractions' = [extractions EXCEPT
                         ![Len(extractions)].tried = Append(@, Extraction("pypdf", r)),
                         ![Len(extractions)].full_text = r.yielded]
                  /\ file_idx' = file_idx
                  /\ ppc' = "body"
    /\ UNCHANGED <<outsidePipeline, fitz, PdfReader, pdf_files, processed,
                   txt_files, out_files>>

\* lines 543-546, 491-503 and 571-572: full_text is empty, pypdf reads the
\* PDF (it yields "" when pypdf is missing), or raises
PipePypdf ==
    /\ ppc = "body"
    /\ CurrentBody.ended = ""
    /\ CurrentBody.full_text = <<>>
    /\ ~Tried(CurrentBody, "pypdf")
    /\ \E r \in ExtractionResults("pypdf") :
          /\ ~PdfReader => r = [raised |-> FALSE, yielded |-> <<>>]
          /\ IF r.raised
             THEN /\ extractions' = [extractions EXCEPT
                         ![Len(extractions)].tried = Append(@, Extraction("pypdf", r)),
                         ![Len(extractions)].ended = "raised"]
                  /\ file_idx' = file_idx + 1
                  /\ ppc' = "loop"
             ELSE /\ extractions' = [extractions EXCEPT
                         ![Len(extractions)].tried = Append(@, Extraction("pypdf", r)),
                         ![Len(extractions)].full_text = r.yielded]
                  /\ file_idx' = file_idx
                  /\ ppc' = "body"
    /\ UNCHANGED <<outsidePipeline, fitz, PdfReader, pdf_files, processed,
                   txt_files, out_files>>

\* lines 547-549: both gave no text, the PDF is skipped
PipeSkip ==
    /\ ppc = "body"
    /\ CurrentBody.full_text = <<>>
    /\ Tried(CurrentBody, "pypdf")
    /\ extractions' = [extractions EXCEPT ![Len(extractions)].ended = "skipped"]
    /\ file_idx' = file_idx + 1
    /\ ppc' = "loop"
    /\ UNCHANGED <<outsidePipeline, fitz, PdfReader, pdf_files, processed,
                   txt_files, out_files>>

\* lines 552-556: the text is saved
PipeSaveTxt ==
    /\ ppc = "body"
    /\ CurrentBody.full_text # <<>>
    /\ txt_files' = txt_files \cup
           {File(Basename(CurrentBody.pdf) \o <<".", "t", "x", "t">>,
                 CurrentBody.full_text, TRUE)}
    /\ ppc' = "txt_saved"
    /\ UNCHANGED <<outsidePipeline, fitz, PdfReader, pdf_files, file_idx, processed,
                   extractions, out_files>>

\* lines 554-555 and 571-572: open raises and there is no file, or write
\* raises and the file holds what was written before, the first
\* characters of the text
PipeSaveTxtRaises ==
    /\ ppc = "body"
    /\ CurrentBody.full_text # <<>>
    /\ \/ txt_files' = txt_files
       \/ \E n \in WrittenBefore(Len(CurrentBody.full_text)) :
             txt_files' = txt_files \cup
                 {File(Basename(CurrentBody.pdf) \o <<".", "t", "x", "t">>,
                       SubSeq(CurrentBody.full_text, 1, n), FALSE)}
    /\ extractions' = [extractions EXCEPT ![Len(extractions)].ended = "raised"]
    /\ file_idx' = file_idx + 1
    /\ ppc' = "loop"
    /\ UNCHANGED <<outsidePipeline, fitz, PdfReader, pdf_files, processed, out_files>>

\* lines 559-563, 374-376 and 571-572: minidom refuses the serialized tree
PipeConvertRaises ==
    /\ ppc = "txt_saved"
    /\ ~Prettifies(PipeRoot, CurrentBody.full_text, Basename(CurrentBody.pdf))
    /\ extractions' = [extractions EXCEPT ![Len(extractions)].ended = "raised"]
    /\ file_idx' = file_idx + 1
    /\ ppc' = "loop"
    /\ UNCHANGED <<outsidePipeline, fitz, PdfReader, pdf_files, processed,
                   txt_files, out_files>>

\* lines 559-570: the text is converted, the XML saved, the PDF counted
PipeConvertAndSave ==
    /\ ppc = "txt_saved"
    /\ Prettifies(PipeRoot, CurrentBody.full_text, Basename(CurrentBody.pdf))
    /\ \E document \in {xml_output} :
          /\ out_files' = out_files \cup
                 {File(Basename(CurrentBody.pdf) \o DotXml, document, TRUE)}
          /\ extractions' = [extractions EXCEPT ![Len(extractions)].xml_output = <<document>>,
                                                ![Len(extractions)].ended = "processed"]
    /\ processed' = processed + 1
    /\ file_idx' = file_idx + 1
    /\ ppc' = "loop"
    /\ UNCHANGED <<outsidePipeline, fitz, PdfReader, pdf_files, txt_files>>

\* lines 559-563, 567-568 and 571-572: the text is converted; open raises
\* and there is no file, or write raises and the file holds what was
\* written before, the first characters of the document
PipeSaveXmlRaises ==
    /\ ppc = "txt_saved"
    /\ Prettifies(PipeRoot, CurrentBody.full_text, Basename(CurrentBody.pdf))
    /\ \E document \in {xml_output} :
          /\ \/ out_files' = out_files
             \/ \E n \in WrittenBefore(Len(document)) :
                   out_files' = out_files \cup
                       {File(Basename(CurrentBody.pdf) \o DotXml,
                             SubSeq(document, 1, n), FALSE)}
          /\ extractions' = [extractions EXCEPT ![Len(extractions)].xml_output = <<document>>,
                                                ![Len(extractions)].ended = "raised"]
    /\ file_idx' = file_idx + 1
    /\ ppc' = "loop"
    /\ UNCHANGED <<outsidePipeline, fitz, PdfReader, pdf_files, processed, txt_files>>

\* lines 536 and 574
PipeDone ==
    /\ ppc = "loop"
    /\ file_idx > Len(pdf_files)
    /\ ppc' = "done"
    /\ UNCHANGED <<outsidePipeline, fitz, PdfReader, pdf_files, file_idx, processed,
                   extractions, txt_files, out_files>>

NextPipeline ==
    \/ PipeNoPdfs
    \/ PipeBegin
    \/ PipePyMuPDF
    \/ PipeNoPyMuPDF
    \/ PipePypdf
    \/ PipeSkip
    \/ PipeSaveTxt
    \/ PipeSaveTxtRaises
    \/ PipeConvertRaises
    \/ PipeConvertAndSave
    \/ PipeSaveXmlRaises
    \/ PipeDone

SpecPipeline == InitPipeline /\ [][NextPipeline]_vars

\* what full_text holds at line 543: the text PyMuPDF yielded, "" without it
FirstYield(b) ==
    IF b.tried # <<>> /\ b.tried[1].by = "pymupdf" THEN b.tried[1].yielded ELSE <<>>

\* the body is past the choice of line 543
PastFirst(b) == b.ended \in {"skipped", "processed"} \/ Tried(b, "pypdf")
                   \/ b.full_text # <<>>

\* the files of a set that carry the base name of the PDF
FilesOf(files_, pdf, ext) == {f \in files_ : f.name = Basename(pdf) \o ext}

\* pypdf is tried exactly when the first extraction yielded no text; a PDF
\* of which both yielded no text is skipped and has no TXT and no XML; every
\* PDF gets its turn; processed counts the PDFs whose XML was written, a
\* file being written when it holds the whole of the document convert
\* returned: what a write that raised has left is less, and is not counted
PipelineRest ==
    /\ \A k \in 1..Len(extractions) :
          LET b == extractions[k]
          IN  /\ b.pdf = pdf_files[k]
              /\ Len(b.tried) <= 2
              /\ Tried(b, "pypdf") =>
                    /\ FirstYield(b) = <<>>
                    /\ b.tried[Len(b.tried)].by = "pypdf"
                    /\ b.tried[1].by = "pymupdf" => ~b.tried[1].raised
              /\ (FirstYield(b) = <<>> /\ b.ended \in {"skipped", "processed"})
                    => Tried(b, "pypdf")
              /\ (b.ended # "" /\ \A i \in 1..Len(b.tried) :
                                      ~b.tried[i].raised /\ b.tried[i].yielded = <<>>)
                    => /\ b.ended = "skipped"
                       /\ Tried(b, "pypdf")
                       /\ FilesOf(txt_files, b.pdf, <<".", "t", "x", "t">>) = {}
                       /\ FilesOf(out_files, b.pdf, DotXml) = {}
              /\ b.ended = "processed" <=>
                    \E f \in FilesOf(out_files, b.pdf, DotXml) : f.complete
              /\ \A f \in FilesOf(out_files, b.pdf, DotXml) :
                    /\ f.complete <=> b.xml_output = <<f.content>>
                    /\ ~f.complete =>
                          /\ b.xml_output # <<>>
                          /\ f.content = SubSeq(b.xml_output[1], 1, Len(f.content))
                          /\ b.ended = "raised"
              /\ \A f \in FilesOf(txt_files, b.pdf, <<".", "t", "x", "t">>) :
                    /\ f.complete <=> f.content = b.full_text
                    /\ ~f.complete =>
                          /\ f.content = SubSeq(b.full_text, 1, Len(f.content))
                          /\ b.ended = "raised"
    /\ ppc = "done" => Len(extractions) = Len(pdf_files)
    /\ ppc \in {"loop", "done"} => Len(extractions) = file_idx - 1
    /\ processed = Cardinality({f \in out_files : f.complete})
    /\ processed = Len(SelectSeq(extractions, LAMBDA b : b.ended = "processed"))

\* C32 as stated: for each PDF the PyMuPDF extraction is tried first, pypdf
\* exactly when it yielded no text; a PDF of which both yielded no text is
\* skipped with no TXT and no XML; an exception does not stop the later
\* PDFs; the final count is the number of PDFs whose XML was written.
C32_PipelineAsStated ==
    /\ \A k \in 1..Len(extractions) :
          extractions[k].tried # <<>> /\ extractions[k].tried[1].by = "pymupdf"
    /\ PipelineRest

\* C32, amended: the same where PyMuPDF could be imported; where it could
\* not, PyMuPDF is not tried and pypdf is tried for every PDF.
C32_PipelineWithFallback ==
    /\ \A k \in 1..Len(extractions) :
          IF fitz
          THEN extractions[k].tried # <<>> /\ extractions[k].tried[1].by = "pymupdf"
          ELSE /\ ~Tried(extractions[k], "pymupdf")
               /\ (k < Len(extractions) \/ ppc \in {"loop", "done"})
                     => Tried(extractions[k], "pypdf")
    /\ PipelineRest

\* with PyMuPDF at hand: the write of the XML of the first PDF raised and
\* left the first two characters of the document, the next PDF got its text
\* from pypdf after PyMuPDF yielded none, and was processed and counted
C32_Witness ==
    /\ ppc = "done"
    /\ fitz
    /\ processed = 1
    /\ Len(extractions) = 2
    /\ extractions[1].ended = "raised"
    /\ \E f \in FilesOf(out_files, extractions[1].pdf, DotXml) :
          ~f.complete /\ f.content = "<?"
    /\ extractions[2].ended = "processed"
    /\ extractions[2].tried[1].yielded = <<>>
    /\ Tried(extractions[2], "pypdf")
    /\ \E f \in FilesOf(out_files, extractions[2].pdf, DotXml) :
          /\ f.complete
          /\ extractions[2].xml_output = <<f.content>>
          /\ SubSeq(f.content, 1, 5) = "<?xml"

\* the positions of the numbered item headers read while section s and its
\* subsection u (0 for none) were open, in input order
NumberedHeadersUnder(s, u) ==
    SelectSeq(PositionsOf("NumberedItemHeader"),
              LAMBDA j : OpenSection(j) = s /\ OpenSubsection(j) = u)

\* the numbered items of a parent, numbered, stand for the header lines
\* hdrs one by one, and the parent element elem holds one item element for
\* each, named after the list and the number of the header
ItemsKept(hdrs, numbered, elem) ==
    /\ Len(numbered) = Len(hdrs)
    /\ hdrs # <<>> =>
          /\ Len(BlockListsOf(elem)) = 1
          /\ Len(BlockListsOf(elem)[1].children) = Len(hdrs)
    /\ \A k \in 1..Len(hdrs) :
          LET n == numbered_item_pattern(StrippedLines[hdrs[k]]).group[1]
          IN  /\ numbered[k].number = n
              /\ AttrOf(BlockListsOf(elem)[1].children[k], "eId") =
                    AttrOf(elem, "eId") \o "__list_1__item_" \o Str(n)

(***************************************************************************)
(* C33.  Numbers are not checked for uniqueness.  Every line that matches  *)
(* the Section pattern, those whose number an earlier one carries          *)
(* included, has its own Section node and its own section element, with    *)
(* eId sec_<number> and its own heading; every numbered item header read   *)
(* under a parent, those that repeat a number included, has its own item   *)
(* and its own item element with eId <listEId>__item_<number>.  So equal   *)
(* numbers give equal eIds.                                                *)
(***************************************************************************)
C33_DuplicateNumbersKept ==
    pc = "done" =>
        LET hits == SelectSeq(StrippedLines, IsSectionLine)
        IN  /\ Len(structure.sections) = Len(hits)
            /\ Len(BodyOfAct.children) = Len(hits)
            /\ \A i \in 1..Len(hits) :
                  /\ structure.sections[i].number = section_pattern(hits[i]).group[2]
                  /\ structure.sections[i].heading = section_pattern(hits[i]).group[3]
                  /\ BodyOfAct.children[i].tag = "section"
                  /\ AttrOf(BodyOfAct.children[i], "eId") =
                        "sec_" \o Str(section_pattern(hits[i]).group[2])
                  /\ ItemsKept(NumberedHeadersUnder(i, 0),
                               SelectSeq(structure.sections[i].content, IsNumberedEntry),
                               SectionElemAt(i))
            /\ \A path \in SubsectionPaths :
                  ItemsKept(NumberedHeadersUnder(path[1], path[2]),
                            SelectSeq(SubsectionAt(structure, path).items, IsNumberedEntry),
                            SubsectionElemAt(path[1], path[2]))

\* 'Sec. 1. T', '(1) y', '(1) y', 'Sec. 1. T': two sections and two section
\* elements sec_1, the first with two items ...__item_1
C33_Witness ==
    /\ pc = "done"
    /\ SectionNumbers = << <<"1">>, <<"1">> >>
    /\ Len(structure.sections) = 2
    /\ Len(BodyOfAct.children) = 2
    /\ AttrOf(BodyOfAct.children[1], "eId") = "sec_1"
    /\ AttrOf(BodyOfAct.children[2], "eId") = "sec_1"
    /\ Len(structure.sections[1].content) = 2
    /\ Len(BlockListsOf(SectionElemAt(1))) = 1
    /\ LET items == BlockListsOf(SectionElemAt(1))[1].children
       IN  /\ Len(items) = 2
           /\ AttrOf(items[1], "eId") = "sec_1__list_1__item_1"
           /\ AttrOf(items[2], "eId") = "sec_1__list_1__item_1"

\* the references of the builder agree with the tree (lines 145-147, 162-173,
\* 177-185): in_preamble is the PREAMBLE mode
ReferencesAgree ==
    /\ in_preamble <=> current_section = None
    /\ current_section = None => structure.sections = <<>>
    /\ current_section # None => current_section[1] = Len(structure.sections)
    /\ current_subsection # None =>
          /\ current_section # None
          /\ current_subsection[1] = current_section[1]
          /\ current_subsection[2] =
                Len(SectionAt(structure, current_section).subsections)

\* the loop is about to store a regular content line through the last
\* alternative, that of neither the preamble mode nor a current section
FallbackTaken ==
    /\ InLoop
    /\ CurrentLine # <<>>
    /\ Branch(CurrentLine, current_section, current_subsection) = "content"
    /\ ~in_preamble
    /\ current_section = None

(***************************************************************************)
(* C34.  In every reachable builder state the mode is IN_BODY exactly when *)
(* a current section is set, the current section is the last section of    *)
(* the document, a current subsection is set only with a current section   *)
(* and is then the last subsection of that section; the mode never goes    *)
(* back from IN_BODY to PREAMBLE, the last alternative of the regular      *)
(* content line is never taken, and the preamble does not grow once a      *)
(* section header was read.                                                *)
(***************************************************************************)
C34_BuilderReferences ==
    /\ [](ReferencesAgree /\ ~FallbackTaken)
    /\ [][/\ ~in_preamble => ~in_preamble'
          /\ structure.sections # <<>> => structure'.preamble = structure.preamble]_vars

\* 'w', 'Sec. 1. T', '§ 2. P', 'w': a preamble line, then a section, a
\* subsection and a content line stored under the subsection
C34_Witness ==
    /\ pc = "loop"
    /\ idx > Len(lines)
    /\ ~in_preamble
    /\ structure.preamble = <<OtherPlainLine>>
    /\ current_section = <<1>>
    /\ current_subsection = <<1, 1>>
    /\ SubsectionAt(structure, <<1, 1>>).content = <<OtherPlainLine>>

\* in a content sequence no PlainLine entry comes after a NumberedItem entry
PlainBeforeNumbered(content) ==
    \A a, b \in 1..Len(content) :
        (a < b /\ IsNumberedEntry(content[a])) => IsNumberedEntry(content[b])

HasNumberedEntry(content) ==
    \E a \in 1..Len(content) : IsNumberedEntry(content[a])

(***************************************************************************)
(* C35.  In every reachable builder state, in the content of every section *)
(* every PlainLine entry precedes every NumberedItem entry; and once the   *)
(* content of a section holds a numbered item no step stores a new         *)
(* PlainLine in it: a plain line read while that section alone is current  *)
(* continues the last item.                                                *)
(***************************************************************************)
C35_PlainBeforeNumbered ==
    /\ [](\A s \in 1..Len(structure.sections) :
             PlainBeforeNumbered(structure.sections[s].content))
    /\ [][\A s \in 1..Len(structure.sections) :
             HasNumberedEntry(structure.sections[s].content) =>
                /\ s <= Len(structure'.sections)
                /\ SelectSeq(structure'.sections[s].content, IsStrEntry) =
                      SelectSeq(structure.sections[s].content, IsStrEntry)
                /\ (/\ ProcessingLine
                    /\ Class(CurrentLine) = "PlainText"
                    /\ current_section = <<s>>
                    /\ current_subsection = None) =>
                      LET n == Len(structure.sections[s].content)
                      IN  /\ Len(structure'.sections[s].content) = n
                          /\ structure'.sections[s].content[n].content =
                                Append(structure.sections[s].content[n].content,
                                       CurrentLine)]_vars

\* 'Sec. 1. T', 'w', '(2)', 'w': a plain line, then an item without a line of
\* its own, then a plain line that became the item's line
C35_Witness ==
    /\ ProcessedLine
    /\ Class(PrevLine) = "PlainText"
    /\ current_section = <<1>>
    /\ current_subsection = None
    /\ LET content == structure.sections[1].content
       IN  /\ Len(content) = 2
           /\ IsStrEntry(content[1])
           /\ IsNumberedEntry(content[2])
           /\ content[2].content = <<PrevLine>>

(***************************************************************************)
(* C36.  Once a section has a subsection no later step changes the         *)
(* section's content, the lines of its numbered items included; and once a *)
(* subsection has an item no later step appends to the subsection's own    *)
(* content.                                                                *)
(***************************************************************************)
C36_ContentFrozen ==
    [][\A s \in 1..Len(structure.sections) :
          LET sec == structure.sections[s]
          IN  /\ sec.subsections # <<>> =>
                    /\ s <= Len(structure'.sections)
                    /\ structure'.sections[s].content = sec.content
              /\ \A u \in 1..Len(sec.subsections) :
                    sec.subsections[u].items # <<>> =>
                       /\ s <= Len(structure'.sections)
                       /\ u <= Len(structure'.sections[s].subsections)
                       /\ structure'.sections[s].subsections[u].content =
                             sec.subsections[u].content]_vars

\* 'Sec. 1. T', '(1) y', '§ 2. P', 'w': the last line, read after the
\* subsection was opened, is stored under the subsection and the section's
\* numbered item keeps its one line
C36_Witness ==
    /\ ProcessedLine
    /\ Class(PrevLine) = "PlainText"
    /\ Len(structure.sections) = 1
    /\ Len(structure.sections[1].content) = 1
    /\ IsNumberedEntry(structure.sections[1].content[1])
    /\ Len(structure.sections[1].content[1].content) = 1
    /\ Len(structure.sections[1].subsections) = 1
    /\ structure.sections[1].subsections[1].content = <<PrevLine>>

\* the lines of a list of items or content entries, a PlainLine counting as
\* its one line
RECURSIVE LinesOfEntries(_)
LinesOfEntries(entries) ==
    IF entries = <<>> THEN <<>>
    ELSE (IF IsStrEntry(Head(entries)) THEN <<Head(entries).value>>
          ELSE Head(entries).content)
         \o LinesOfEntries(Tail(entries))

\* the lines stored under one subsection
LinesOfSubsection(subsec) == subsec.content \o LinesOfEntries(subsec.items)

\* the lines stored under one section
LinesOfSection(section) ==
    LinesOfEntries(section.content)
    \o ConcatAll([u \in 1..Len(section.subsections) |->
                     LinesOfSubsection(section.subsections[u])])

\* every line stored in the tree: the preamble lines, the content lines of
\* the sections and subsections and the lines of the items
StoredLines(st) ==
    LET ls == st.preamble
              \o ConcatAll([s \in 1..Len(st.sections) |-> LinesOfSection(st.sections[s])])
    IN  [i \in 1..Len(ls) |-> Str(ls[i])]

\* the texts of the p elements of the preamble and of the body
RenderedPs ==
    ConcatAll([i \in 1..Len(ChildrenTagged(ActElem, "preamble")) |->
                  PTexts(ChildrenTagged(ActElem, "preamble")[i])])
    \o PTexts(BodyOfAct)

(***************************************************************************)
(* C37.  Serialization conserves lines: the p elements of the preamble and *)
(* of the body are as many as the lines stored in the tree, and each text  *)
(* is the text of as many p elements as there are stored lines equal to    *)
(* it.                                                                     *)
(***************************************************************************)
C37_LinesConserved ==
    pc = "done" =>
        /\ Len(RenderedPs) = Len(StoredLines(structure))
        /\ \A i \in 1..Len(RenderedPs) :
              Count(RenderedPs, RenderedPs[i]) =
                 Count(StoredLines(structure), RenderedPs[i])
        /\ \A i \in 1..Len(StoredLines(structure)) :
              Count(RenderedPs, StoredLines(structure)[i]) =
                 Count(StoredLines(structure), StoredLines(structure)[i])

\* 'Sec. 1. T', '§ 2. P', 'w', '(a) x': a subsection with a content line and
\* a lettered item, rendered as two p elements
C37_Witness ==
    /\ pc = "done"
    /\ Len(structure.sections) = 1
    /\ Len(structure.sections[1].subsections) = 1
    /\ structure.sections[1].subsections[1].content # <<>>
    /\ structure.sections[1].subsections[1].items # <<>>
    /\ IsLettered(structure.sections[1].subsections[1].items[1])
    /\ Len(StoredLines(structure)) = 2
    /\ Len(RenderedPs) = 2

\* the tags of the children of e, in order
TagsOf(e) == [i \in 1..Len(e.children) |-> e.children[i].tag]

\* in the sequence of tags q every a comes before every b
AllBefore(q, a, b) ==
    \A i, j \in 1..Len(q) : (q[i] = a /\ q[j] = b) => i < j

(***************************************************************************)
(* C38.  The rendered order of a container's children can differ from the  *)
(* input order.  In the content element of a section that has numbered     *)
(* items the blockList is the first child and every plain p follows it,    *)
(* although in the section's content, which is in input order, every plain *)
(* line precedes every numbered item.  In the element of a subsection      *)
(* every nested subsection of a lettered item comes before the content     *)
(* element that holds the blockList of the numbered items, whatever the    *)
(* order of the items was in the input.                                    *)
(***************************************************************************)
C38_RenderedOrder ==
    pc = "done" =>
        /\ \A s \in 1..Len(structure.sections) :
              LET content == structure.sections[s].content
              IN  HasNumberedEntry(content) =>
                     LET celem == ChildrenTagged(SectionElemAt(s), "content")[1]
                     IN  /\ PlainBeforeNumbered(content)
                         /\ TagsOf(celem) =
                               <<"blockList">>
                               \o [i \in 1..Len(SelectSeq(content, IsStrEntry)) |-> "p"]
                         /\ ChildPTexts(celem) = PlainTexts(content)
        /\ \A path \in SubsectionPaths :
              LET items == SubsectionAt(structure, path).items
                  elem == SubsectionElemAt(path[1], path[2])
              IN  /\ Len(ChildrenTagged(elem, "subsection")) =
                        Len(SelectSeq(items, IsLettered))
                  /\ Len(BlockListsOf(elem)) =
                        IF SelectSeq(items, IsNumberedEntry) = <<>> THEN 0 ELSE 1
                  /\ AllBefore(TagsOf(elem), "subsection", "content")

\* 'Sec. 1. T', 'w', '(1) y', '§ 2. P', '(1) y', '(a) x': in the section the
\* plain line comes first and is rendered last; in the subsection the numbered
\* item comes first and is rendered last
C38_Witness ==
    /\ pc = "done"
    /\ StrippedLines = <<SecLine, OtherPlainLine, NumLine, SubsecLine, NumLine, LetterLine>>
    /\ IsStrEntry(structure.sections[1].content[1])
    /\ IsNumberedEntry(structure.sections[1].content[2])
    /\ TagsOf(ChildrenTagged(SectionElemAt(1), "content")[1]) = <<"blockList", "p">>
    /\ IsNumberedEntry(structure.sections[1].subsections[1].items[1])
    /\ IsLettered(structure.sections[1].subsections[1].items[2])
    /\ TagsOf(SubsectionElemAt(1, 1)) = <<"num", "heading", "subsection", "content">>

\* name ends with tail
EndsWith(name, tail) ==
    /\ Len(tail) <= Len(name)
    /\ SubSeq(name, Len(name) - Len(tail) + 1, Len(name)) = tail

(***************************************************************************)
(* C39.  Within one call of scrape the file names of the PDFs downloaded   *)
(* with success are pairwise distinct: count is the number of successful   *)
(* downloads so far, the name of the k-th successful download ends with    *)
(* the count k - 1 it was made with, each of them is a file of its own     *)
(* among the files written, and no attempt made with another count, failed *)
(* or not, writes to the file of a successful download.                    *)
(***************************************************************************)
C39_FileNamesDistinct ==
    /\ count = Len(downloaded)
    /\ \A i \in 1..Len(downloaded) :
          /\ EndsWith(downloaded[i][1], DecimalStr(i - 1) \o DotPdf)
          /\ os_path_basename(downloaded[i][1]) = FileName(downloaded[i][2], i - 1)
          /\ downloaded[i][1] \in files
    /\ \A i, j \in 1..Len(downloaded) :
          i # j => os_path_basename(downloaded[i][1]) # os_path_basename(downloaded[j][1])
    /\ \A i \in 1..Len(downloaded) :
          \A k \in 1..Len(PdfFetches) :
              PdfFetches[k].index # i - 1 =>
                  FileName(PdfFetches[k].link, PdfFetches[k].index)
                      # os_path_basename(downloaded[i][1])
    /\ spc = "returned" =>
          \A i, j \in 1..Len(ret) :
              i # j => os_path_basename(ret[i][1]) # os_path_basename(ret[j][1])

\* two links with the same text 'Title 1' were both downloaded, as
\* statute_Title_1_0.pdf and statute_Title_1_1.pdf
C39_Witness ==
    /\ spc = "returned"
    /\ Len(downloaded) = 2
    /\ downloaded[1][2].title = downloaded[2][2].title
    /\ downloaded[1][2].url # downloaded[2][2].url
    /\ os_path_basename(downloaded[1][1]) = <<"s", "t", "a", "t", "u", "t", "e", "_", "T", "i", "t", "l", "e", "_", "1", "_", "0">> \o DotPdf
    /\ os_path_basename(downloaded[2][1]) = <<"s", "t", "a", "t", "u", "t", "e", "_", "T", "i", "t", "l", "e", "_", "1", "_", "1">> \o DotPdf
    /\ Cardinality(files) = 2

====
